---------------------------- MODULE Spec2Model ----------------------------
(***************************************************************************)
(* The rocBLAS <-> Tensile interface layer (library/src/tensile_host.cpp): *)
(* the process-wide TensileHost, its lazy thread-safe construction, and    *)
(* runContractionProblem with the problem builder and scalar marshaller.   *)
(***************************************************************************)
EXTENDS Integers, Sequences, FiniteSets, Bags, TLC

VARIABLES
    sys,        \* the process environment: getenv, dladdr, filesystem, device
    proc,       \* "running", "aborted" (rocblas_abort) or "crashed"
    hostGuard,  \* guard of the function-local static `host`
    host,       \* the static TensileHost: hardware, library, adapter
    ctorRuns,   \* how many times TensileHost::TensileHost() was entered
    nextHandle, \* next fresh object identity handed out by a loader
    path,       \* the constructor's local `path`, per constructing thread
    pc,         \* each thread's position
    op,         \* which entry point the thread is in: "run" or "init"
    prob,       \* runContractionProblem's argument
    hostRef,    \* what getTensileHost() returned to the thread
    tprob,      \* local tensile_prob
    solution,   \* local solution
    inputs,     \* local inputs
    result,     \* local result: the kernel invocation solve() built
    launched,   \* the launch request this call handed to the adapter
    status,     \* local status
    caught,     \* the exception a catch clause of the call caught
    calls,      \* calls started so far
    once,       \* the function-local `static int once` latches
    log,        \* what was written to rocblas_cerr (a bag of messages)
    inflight,   \* kernels enqueued on the device and not yet complete
    bprob,      \* builder run: the request under test
    btprob,     \* builder run: ConstructTensileProblem's result
    binputs,    \* builder run: GetTensileInputs' result
    bstage,     \* builder run: "request", "problem", "inputs" or "fault"
    bmode,      \* builder run: where the request's alpha and beta pointers point
    breads,     \* builder run: the scalars the host has read through their pointer
    l2args,     \* Level-2 call: the arguments of the C entry point
    l2stage,    \* Level-2 call: "off", "call" or "returned"
    l2status,   \* Level-2 call: the rocblas_status returned
    l2invoked,  \* Level-2 call: whether rocblas_hbmv_template was invoked
    l2logged,   \* Level-2 call: the log layers written by the call
    testArg,    \* hemv test: the Arguments of the test
    testPc,     \* hemv test: the test function's position
    testChecks  \* hemv test: the EXPECT_ROCBLAS_STATUS results so far

procVars   == <<sys, proc, hostGuard, host, ctorRuns, nextHandle, path,
                pc, op, prob, hostRef, tprob, solution, inputs, result,
                launched, status, caught, calls, once, log, inflight>>
buildVars  == <<bprob, btprob, binputs, bstage, bmode, breads>>
blas2Vars  == <<l2args, l2stage, l2status, l2invoked, l2logged>>
testVars   == <<testArg, testPc, testChecks>>
vars       == <<sys, proc, hostGuard, host, ctorRuns, nextHandle, path,
                pc, op, prob, hostRef, tprob, solution, inputs, result,
                launched, status, caught, calls, once, log, inflight, bprob,
                btprob,
                binputs, bstage, bmode, breads, l2args, l2stage, l2status,
                l2invoked, l2logged, testArg, testPc, testChecks>>

-----------------------------------------------------------------------------
(* Bounds of the model *)

\* largest m, n, k and batch_count drawn for the builder
MaxDim == 2
\* calls of runContractionProblem and rocblas_initialize the process makes
MaxCalls == 2

Threads == {"t1", "t2"}

None == "none"

-----------------------------------------------------------------------------
(* rocBLAS element types and the instantiated (Ti, To, Tc) triples *)

TypeTriples ==
    { <<"half", "half", "half">>,
      <<"float", "float", "float">>,
      <<"double", "double", "double">>,
      <<"float_complex", "float_complex", "float_complex">>,
      <<"double_complex", "double_complex", "double_complex">>,
      <<"half", "half", "float">>,
      <<"bfloat16", "bfloat16", "float">>,
      <<"int8", "int32", "int32">> }

\* sizeof(T) of the rocBLAS type
SizeOf(T) ==
    CASE T = "int8" -> 1
      [] T = "half" -> 2
      [] T = "bfloat16" -> 2
      [] T = "float" -> 4
      [] T = "int32" -> 4
      [] T = "double" -> 8
      [] T = "float_complex" -> 8
      [] T = "double_complex" -> 16

is_complex(T) == T \in {"float_complex", "double_complex"}

\* rocblas_to_tensile_type<T>::tensile_type
rocblas_to_tensile_type(T) ==
    CASE T = "float_complex" -> "std::complex<float>"
      [] T = "double_complex" -> "std::complex<double>"
      [] T = "half" -> "Tensile::Half"
      [] T = "bfloat16" -> "Tensile::BFloat16"
      [] T = "int8" -> "Tensile::Int8x4"
      [] OTHER -> T

\* tensile_datatype<T>
tensile_datatype(T) ==
    CASE T = "int8" -> "Int8x4"
      [] T = "int32" -> "Int32"
      [] T = "half" -> "Half"
      [] T = "bfloat16" -> "BFloat16"
      [] T = "float" -> "Float"
      [] T = "double" -> "Double"
      [] T = "float_complex" -> "ComplexFloat"
      [] T = "double_complex" -> "ComplexDouble"

Operations == {"none", "transpose", "conjugate_transpose"}

-----------------------------------------------------------------------------
(* Scalars.  A scalar is a typed value; the values drawn are integers, which *)
(* every floating type here represents exactly up to its precision.          *)

Scalar(T, v) == [type |-> T, v |-> v]

Abs(x) == IF x < 0 THEN -x ELSE x

RECURSIVE HalfUlp(_, _)
\* spacing of half-precision values around magnitude a (11 significant bits)
HalfUlp(a, u) == IF a < 2048 * u THEN u ELSE HalfUlp(a, 2 * u)

\* rocblas_half(float): round to nearest, ties to even; 65520 and above
\* overflow to infinity, written here as the magnitude 65536
FloatToHalf(v) ==
    LET a    == Abs(v)
        sign == IF v < 0 THEN -1 ELSE 1
        u    == HalfUlp(a, 1)
        q    == a \div u
        r    == a % u
        n    == IF 2 * r > u \/ (2 * r = u /\ q % 2 = 1) THEN q + 1 ELSE q
    IN  IF a >= 65520 THEN sign * 65536 ELSE sign * n * u

\* value_category(beta): the class of beta handed to the ContractionProblem
value_category(beta) ==
    IF beta.v = 0 THEN 0 ELSE IF beta.v = 1 THEN 1 ELSE -12345

-----------------------------------------------------------------------------
(* ConstructTensileProblem *)

TensorDescriptor(dataType, sizes, strides) ==
    [dataType |-> dataType, sizes |-> sizes, strides |-> strides]

\* as EffectiveK, leaving k == 0 as it is
EffectiveKAsGiven(p) == p.k

EffectiveK(p) == IF p.k = 0 THEN 1 ELSE p.k

\* as DescriptorA, laid out as the untransposed operand whatever trans_a is
DescriptorAUntransposed(p) ==
    [desc |-> TensorDescriptor(tensile_datatype(p.types[1]),
                               <<p.m, EffectiveK(p), p.batch_count>>,
                               <<1, p.ld_a, p.stride_a>>),
     free |-> 0, bound |-> 1]

DescriptorA(p) ==
    IF p.trans_a # "none"
    THEN [desc |-> TensorDescriptor(tensile_datatype(p.types[1]),
                                    <<EffectiveK(p), p.m, p.batch_count>>,
                                    <<1, p.ld_a, p.stride_a>>),
          free |-> 1, bound |-> 0]
    ELSE [desc |-> TensorDescriptor(tensile_datatype(p.types[1]),
                                    <<p.m, EffectiveK(p), p.batch_count>>,
                                    <<1, p.ld_a, p.stride_a>>),
          free |-> 0, bound |-> 1]

\* as DescriptorB, with the sizes of the transposed operand in both cases
DescriptorBSizesAsTransposed(p) ==
    [desc |-> TensorDescriptor(tensile_datatype(p.types[1]),
                               <<p.n, EffectiveK(p), p.batch_count>>,
                               <<1, p.ld_b, p.stride_b>>),
     free |-> IF p.trans_b # "none" THEN 0 ELSE 1,
     bound |-> IF p.trans_b # "none" THEN 1 ELSE 0]

DescriptorB(p) ==
    IF p.trans_b # "none"
    THEN [desc |-> TensorDescriptor(tensile_datatype(p.types[1]),
                                    <<p.n, EffectiveK(p), p.batch_count>>,
                                    <<1, p.ld_b, p.stride_b>>),
          free |-> 0, bound |-> 1]
    ELSE [desc |-> TensorDescriptor(tensile_datatype(p.types[1]),
                                    <<EffectiveK(p), p.n, p.batch_count>>,
                                    <<1, p.ld_b, p.stride_b>>),
          free |-> 1, bound |-> 0]

\* as ConjugateOps, conjugating a complex operand under either transposition
ConjugateOpsAnyTranspose(T, trans) ==
    IF is_complex(T) /\ trans # "none"
    THEN <<"ComplexConjugate">> ELSE <<>>

ConjugateOps(T, trans) ==
    IF is_complex(T) /\ trans = "conjugate_transpose"
    THEN <<"ComplexConjugate">> ELSE <<>>

\* as HighPrecisionAccumulate, comparing the compute type with the output type
HighPrecisionAccumulateOverOutput(types) == SizeOf(types[3]) > SizeOf(types[2])

\* as HighPrecisionAccumulate, set when the compute type is wider than either
\* storage type
HighPrecisionAccumulateAnyStorage(types) ==
    SizeOf(types[3]) > SizeOf(types[1]) \/ SizeOf(types[3]) > SizeOf(types[2])

HighPrecisionAccumulate(types) == SizeOf(types[3]) > SizeOf(types[1])

ConstructTensileProblem(p) ==
    LET A == DescriptorA(p)
        B == DescriptorB(p)
    IN  [a    |-> A.desc,
         aops |-> ConjugateOps(p.types[1], p.trans_a),
         b    |-> B.desc,
         bops |-> ConjugateOps(p.types[1], p.trans_b),
         c    |-> TensorDescriptor(tensile_datatype(p.types[2]),
                                   <<p.m, p.n, p.batch_count>>,
                                   <<1, p.ld_c, p.stride_c>>),
         cops |-> <<>>,
         d    |-> TensorDescriptor(tensile_datatype(p.types[2]),
                                   <<p.m, p.n, p.batch_count>>,
                                   <<1, p.ld_d, p.stride_d>>),
         dops |-> <<>>,
         freeIndex  |-> << [isA |-> TRUE,  i |-> A.free, c |-> 0, d |-> 0],
                           [isA |-> FALSE, i |-> B.free, c |-> 1, d |-> 1] >>,
         batchIndex |-> << [a |-> 2, b |-> 2, c |-> 2, d |-> 2] >>,
         boundIndex |-> << [a |-> A.bound, b |-> B.bound] >>,
         beta |-> value_category(p.beta),
         highPrecisionAccumulate |-> HighPrecisionAccumulate(p.types)]

-----------------------------------------------------------------------------
(* AlphaBeta<Ti, To, Tc>::copy and GetTensileInputs *)

AlphaBeta_tensile_type(types) ==
    IF types = <<"half", "half", "float">>
    THEN "Tensile::Half"
    ELSE rocblas_to_tensile_type(types[3])

\* as AlphaBeta_copy, with the primary template only
AlphaBeta_copyPrimary(types, src) ==
    Scalar(rocblas_to_tensile_type(types[3]), src.v)

\* memcpy between same-size types keeps the bytes; the HPA half
\* specialization first converts the float to rocblas_half
AlphaBeta_copy(types, src) ==
    IF types = <<"half", "half", "float">>
    THEN Scalar("Tensile::Half", FloatToHalf(src.v))
    ELSE Scalar(rocblas_to_tensile_type(types[3]), src.v)

\* memset(&inputs.alpha, 0, sizeof(inputs.alpha))
ZeroScalar(types) == Scalar(AlphaBeta_tensile_type(types), 0)

\* as MarshalAlpha, without the k == 0 case
MarshalAlphaAlwaysCopy(p) == AlphaBeta_copy(p.types, p.alpha)

MarshalAlpha(p) ==
    IF p.k = 0 THEN ZeroScalar(p.types) ELSE AlphaBeta_copy(p.types, p.alpha)

GetTensileInputs(p) ==
    [a |-> [type |-> rocblas_to_tensile_type(p.types[1]), ptr |-> p.A],
     b |-> [type |-> rocblas_to_tensile_type(p.types[1]), ptr |-> p.B],
     c |-> [type |-> rocblas_to_tensile_type(p.types[2]), ptr |-> p.C],
     d |-> [type |-> rocblas_to_tensile_type(p.types[2]), ptr |-> p.D],
     alpha |-> MarshalAlpha(p),
     beta  |-> AlphaBeta_copy(p.types, p.beta)]

-----------------------------------------------------------------------------
(* Requests *)

\* caller-supplied scalar values; 2049 and 70000 are not half-precision values
ScalarValues == {0, 1, 5, 2049, 70000}

Layouts ==
    { [ld_a |-> 11, ld_b |-> 12, ld_c |-> 13, ld_d |-> 14,
       stride_a |-> 101, stride_b |-> 102, stride_c |-> 103, stride_d |-> 104],
      [ld_a |-> 24, ld_b |-> 23, ld_c |-> 22, ld_d |-> 21,
       stride_a |-> 204, stride_b |-> 203, stride_c |-> 202, stride_d |-> 201] }

Handles ==
    { [startEvent |-> s, stopEvent |-> e, stream |-> st] :
        s \in {None, "ev1"}, e \in {None, "ev2"}, st \in {"stream0", "stream1"} }

RocblasContractionProblem(h, types, ta, tb, m, n, k, al, be, lay, bc) ==
    [handle |-> h, types |-> types, trans_a |-> ta, trans_b |-> tb,
     m |-> m, n |-> n, k |-> k,
     alpha |-> Scalar(types[3], al), beta |-> Scalar(types[3], be),
     A |-> "A", B |-> "B", C |-> "C", D |-> "D",
     ld_a |-> lay.ld_a, ld_b |-> lay.ld_b, ld_c |-> lay.ld_c, ld_d |-> lay.ld_d,
     stride_a |-> lay.stride_a, stride_b |-> lay.stride_b,
     stride_c |-> lay.stride_c, stride_d |-> lay.stride_d,
     batch_count |-> bc]

PlainHandle == [startEvent |-> None, stopEvent |-> None, stream |-> "stream0"]

\* requests drawn for the builder and the marshaller
BuildProblems ==
    { RocblasContractionProblem(PlainHandle, ty, ta, tb, m, n, k, al, be, lay, bc) :
        ty \in TypeTriples, ta \in Operations, tb \in Operations,
        m \in 1..MaxDim, n \in 1..MaxDim, k \in 0..MaxDim,
        al \in {5, 2049}, be \in ScalarValues,
        lay \in Layouts, bc \in {1, 2} }

NoProblem == [types |-> None]


\* requests drawn for runContractionProblem calls
RunTypes == { <<"float", "float", "float">>, <<"half", "half", "float">> }

RunLayout == CHOOSE lay \in Layouts : lay.ld_a = 11

TimedHandle == [startEvent |-> "ev1", stopEvent |-> "ev2", stream |-> "stream1"]

\* a handle with a start event and no stop event
StartOnlyHandle == [startEvent |-> "ev1", stopEvent |-> None, stream |-> "stream1"]

\* a real single-precision request the catalogue has a solution for, and
\* requests that differ from it in one respect: no solution for m = 2,
\* k = 0, the HPA half instantiation (with k = 0 and a beta that is no
\* half-precision value), timing events on the handle, one timing event only
RunProblems ==
    { RocblasContractionProblem(PlainHandle, <<"float", "float", "float">>,
                                "none", "none", m, 1, k, 5, 2, RunLayout, 1) :
        m \in {1, 2}, k \in {0, 1} }
    \cup
    { RocblasContractionProblem(PlainHandle, <<"half", "half", "float">>,
                                "none", "none", 1, 1, 0, 5, 2049, RunLayout, 1),
      RocblasContractionProblem(TimedHandle, <<"float", "float", "float">>,
                                "none", "none", 1, 1, 1, 5, 2, RunLayout, 1),
      RocblasContractionProblem(StartOnlyHandle, <<"float", "float", "float">>,
                                "none", "none", 1, 1, 1, 5, 2, RunLayout, 1) }

-----------------------------------------------------------------------------
(* The process environment: paths, the filesystem, glob *)

\* a path is the sequence of its components
dirname(p) == SubSeq(p, 1, Len(p) - 1)

\* what a failed path lookup, getenv or dladdr yields: no path at all
NoPath == <<"*null*">>

RECURSIVE Resolve(_, _, _)
\* the kernel's walk of a path: every directory passed through must exist,
\* ".." steps to the parent; Resolve is <<>> for the root, NoPath on failure
Resolve(fs, cur, rest) ==
    IF cur = NoPath THEN NoPath
    ELSE IF rest = <<>> THEN cur
    ELSE IF cur # <<>> /\ cur \notin fs THEN NoPath
    ELSE IF Head(rest) = ".."
         THEN Resolve(fs, IF cur = <<>> THEN <<>> ELSE dirname(cur), Tail(rest))
         ELSE Resolve(fs, Append(cur, Head(rest)), Tail(rest))

\* access(path, R_OK) == 0
TestPath(fs, p) ==
    LET r == Resolve(fs, <<>>, p) IN r # NoPath /\ (r = <<>> \/ r \in fs)

ArchIds == {906, 908}

\* "gfx" + std::to_string(device_arch_id())
Processor(arch) == "gfx" \o ToString(arch)

\* the names in the modelled filesystem that fnmatch "*<processor>*co"
CodeObjectNames(processor) ==
    CASE processor = "gfx906" ->
            {"TensileLibrary_gfx906.co", "Kernels.so-000-gfx906.hsaco"}
      [] processor = "gfx908" -> {"TensileLibrary_gfx908.co"}
      [] OTHER -> {}

\* the paths glob(path + "/*" + processor + "*co") matches
Glob(fs, dir, processor) ==
    LET d == Resolve(fs, <<>>, dir)
    IN  IF d = NoPath THEN {}
        ELSE { f \in fs : Len(f) = Len(d) + 1 /\ dirname(f) = d
                          /\ f[Len(f)] \in CodeObjectNames(processor) }

DliFname == <<"opt", "rocm", "lib", "librocblas.so">>
HardCodedLibDir == <<"opt", "rocm", "rocblas", "lib">>

\* as SearchPath, with the architecture subdirectory step applied to the
\* environment's directory too
SearchPathArchAlways(s, processor) ==
    LET base == IF s.dladdr # NoPath THEN dirname(s.dladdr) ELSE HardCodedLibDir
        lib  == IF s.env # NoPath THEN s.env
                ELSE IF TestPath(s.fs, base \o <<"..", "..", "Tensile", "library">>)
                     THEN base \o <<"..", "..", "Tensile", "library">>
                     ELSE base \o <<"library">>
    IN  IF TestPath(s.fs, lib \o <<processor>>)
        THEN lib \o <<processor>>
        ELSE lib

\* lines 322-351: the library search path
SearchPath(s, processor) ==
    IF s.env # NoPath
    THEN s.env
    ELSE LET base == IF s.dladdr # NoPath THEN dirname(s.dladdr) ELSE HardCodedLibDir
             lib  == IF TestPath(s.fs, base \o <<"..", "..", "Tensile", "library">>)
                     THEN base \o <<"..", "..", "Tensile", "library">>
                     ELSE base \o <<"library">>
         IN  IF TestPath(s.fs, lib \o <<processor>>)
             THEN lib \o <<processor>>
             ELSE lib

MetadataPath(p) == p \o <<"TensileLibrary.yaml">>


\* a set of paths together with every directory above them
WithParents(S) == S \cup UNION { { SubSeq(f, 1, i) : i \in 1..Len(f) } : f \in S }

\* a library directory holding the gfx906 code objects and the metadata file
Install(dir) ==
    WithParents({ dir \o <<n>> : n \in CodeObjectNames("gfx906") }
                \cup { MetadataPath(dir), dirname(DliFname), DliFname })

EnvDir == <<"srv", "tensile">>

\* the filesystems drawn: the library installed under the directory the
\* environment variable names, or in the architecture subdirectory beside
\* librocblas.so
FsChoices ==
    { Install(EnvDir),
      Install(dirname(DliFname) \o <<"library", "gfx906">>) }

\* a null shared_ptr
Null == [id |-> 0]

\* the catalogue a readable master metadata file describes
Catalogue ==
    { [id |-> 10 * a + SizeOf(ty[1]), arch |-> a, dataType |-> tensile_datatype(ty[1]),
       hpa |-> HighPrecisionAccumulate(ty), m |-> 1] :
        a \in ArchIds, ty \in RunTypes }

\* what the metadata file holds: a master library, or text that does not
\* load as one
MetaChoices == { [master |-> TRUE, solutions |-> Catalogue],
                 [master |-> FALSE, solutions |-> {}] }

SysChoices ==
    { [env |-> e, dladdr |-> d, fs |-> f, arch |-> a, meta |-> mt] :
        e \in {NoPath, EnvDir}, d \in {DliFname}, f \in FsChoices,
        a \in ArchIds, mt \in MetaChoices }

\* exceptions a Tensile or HIP call may raise
Exceptions == { [kind |-> "std", what |-> "std::runtime_error"],
                [kind |-> "std", what |-> "std::bad_alloc"],
                [kind |-> "unknown", what |-> ""] }
NoException == [kind |-> "none", what |-> ""]
Outcomes == {NoException} \cup Exceptions

-----------------------------------------------------------------------------
(* Diagnostics on rocblas_cerr *)

Message(kind, where, what, found, p) ==
    [kind |-> kind, path |-> where, what |-> what, found |-> found, prob |-> p]

Emit(msg) == log' = log (+) SetToBag({msg})

Emitted(kind) == { msg \in BagToSet(log) : msg.kind = kind }

Sites == {"no_solution", "std_exception", "unknown_exception"}

\* `static int once = (rocblas_cerr << ..., 0)`: the initializer runs on the
\* first pass of this instantiation through the site and never again
Latched(site, types) == once[<<site, types>>]

\* as EmitOnce, with a latch per message text instead of the one static
EmitOncePerMessage(site, types, msg) ==
    IF msg \in BagToSet(log)
    THEN UNCHANGED <<once, log>>
    ELSE /\ once' = [once EXCEPT ![<<site, types>>] = TRUE]
         /\ Emit(msg)

\* as EmitOnce, with the message written on every pass
EmitEveryTime(site, types, msg) ==
    /\ once' = [once EXCEPT ![<<site, types>>] = TRUE]
    /\ Emit(msg)

EmitOnce(site, types, msg) ==
    IF Latched(site, types)
    THEN UNCHANGED <<once, log>>
    ELSE /\ once' = [once EXCEPT ![<<site, types>>] = TRUE]
         /\ Emit(msg)


-----------------------------------------------------------------------------
(* Initial state *)

NoTensileProblem == [set |-> FALSE]
NoInputs == [set |-> FALSE]
NoLaunch == [set |-> FALSE]
NoResult == [set |-> FALSE]
NoHost == [set |-> FALSE]

\* the static `host` before its constructor has run
RawHost == [hardware |-> Null, library |-> Null, adapter |-> {}]

BuildIdle ==
    /\ bprob = NoProblem
    /\ btprob = NoTensileProblem
    /\ binputs = NoInputs
    /\ bstage = "off"
    /\ bmode = "host"
    /\ breads = {}

\* no Level-2 call and no test in progress
NoArgs == [set |-> FALSE]

Blas2Idle ==
    /\ l2args = NoArgs
    /\ l2stage = "off"
    /\ l2status = None
    /\ l2invoked = FALSE
    /\ l2logged = {}
    /\ testArg = NoArgs
    /\ testPc = "off"
    /\ testChecks = <<>>

ProcInit(choices) ==
    /\ sys \in choices
    /\ proc = "running"
    /\ hostGuard = "uninit"
    /\ host = RawHost
    /\ ctorRuns = 0
    /\ nextHandle = 1
    /\ path = [t \in Threads |-> NoPath]
    /\ pc = [t \in Threads |-> "idle"]
    /\ op = [t \in Threads |-> None]
    /\ prob = [t \in Threads |-> NoProblem]
    /\ hostRef = [t \in Threads |-> NoHost]
    /\ tprob = [t \in Threads |-> NoTensileProblem]
    /\ solution = [t \in Threads |-> Null]
    /\ inputs = [t \in Threads |-> NoInputs]
    /\ result = [t \in Threads |-> NoResult]
    /\ launched = [t \in Threads |-> NoLaunch]
    /\ status = [t \in Threads |-> None]
    /\ caught = [t \in Threads |-> NoException]
    /\ calls = 0
    /\ once = [k \in Sites \X TypeTriples |-> FALSE]
    /\ log = EmptyBag
    /\ inflight = 0

Init == ProcInit(SysChoices) /\ BuildIdle /\ Blas2Idle

-----------------------------------------------------------------------------
(* Entry points *)

\* a thread enters runContractionProblem(prob)
CallRun(t) ==
    /\ proc = "running"
    /\ pc[t] = "idle"
    /\ calls < MaxCalls
    /\ \E p \in RunProblems : prob' = [prob EXCEPT ![t] = p]
    /\ calls' = calls + 1
    /\ op' = [op EXCEPT ![t] = "run"]
    /\ pc' = [pc EXCEPT ![t] = "getHost"]
    /\ UNCHANGED <<sys, inflight, proc, hostGuard, host, ctorRuns, nextHandle,
                   path, hostRef, tprob, solution, inputs, result, launched,
                   status, caught, once, log>>
    /\ UNCHANGED <<buildVars, blas2Vars, testVars>>

\* a thread enters rocblas_initialize()
CallInitialize(t) ==
    /\ proc = "running"
    /\ pc[t] = "idle"
    /\ calls < MaxCalls
    /\ calls' = calls + 1
    /\ op' = [op EXCEPT ![t] = "init"]
    /\ pc' = [pc EXCEPT ![t] = "getHost"]
    /\ UNCHANGED <<sys, inflight, proc, hostGuard, host, ctorRuns, nextHandle,
                   path, prob, hostRef, tprob, solution, inputs, result,
                   launched, status, caught, once, log>>
    /\ UNCHANGED <<buildVars, blas2Vars, testVars>>

-----------------------------------------------------------------------------
(* getTensileHost and the TensileHost constructor *)

\* as MayConstruct, for a host that is no static: constructed by every call
MayConstructAlways(guard) == TRUE

\* as MayConstruct and MayPass, for a function-local static whose
\* initialization is not guarded against concurrent entry
MayConstructUnguarded(guard) == guard # "done"
MayPassUnguarded(guard) == guard # "uninit"

\* the guard of `static TensileHost host`: the first thread to arrive runs
\* the constructor, threads arriving meanwhile wait, later ones pass
MayConstruct(guard) == guard = "uninit"
MayPass(guard) == guard = "done"

\* getTensileHost(): the thread becomes the initializer
GetHostConstruct(t) ==
    /\ proc = "running"
    /\ pc[t] = "getHost"
    /\ MayConstruct(hostGuard)
    /\ hostGuard' = "initializing"
    /\ ctorRuns' = ctorRuns + 1
    /\ pc' = [pc EXCEPT ![t] = "ctor_hardware"]
    /\ UNCHANGED <<sys, inflight, proc, host, nextHandle, path, op, prob,
                   hostRef, tprob, solution, inputs, result, launched, status,
                   caught, calls, once, log>>
    /\ UNCHANGED <<buildVars, blas2Vars, testVars>>

\* as InitialStatus, starting from rocblas_status_success
InitialStatusSuccess == "success"

\* line 422: rocblas_status status = rocblas_status_internal_error
InitialStatus == "internal_error"

\* getTensileHost(): `return host`; runContractionProblem then initializes
\* its status
GetHostReturn(t) ==
    /\ proc = "running"
    /\ pc[t] = "getHost"
    /\ MayPass(hostGuard)
    /\ hostRef' = [hostRef EXCEPT ![t] = host]
    /\ IF op[t] = "run"
       THEN /\ status' = [status EXCEPT ![t] = InitialStatus]
            /\ pc' = [pc EXCEPT ![t] = "construct"]
       ELSE /\ status' = status
            /\ pc' = [pc EXCEPT ![t] = "ret"]
    /\ UNCHANGED <<sys, inflight, proc, hostGuard, host, ctorRuns, nextHandle,
                   path, op, prob, tprob, solution, inputs, result, launched,
                   caught, calls, once, log>>
    /\ UNCHANGED <<buildVars, blas2Vars, testVars>>

\* as InitFailed, reporting the failure without rocblas_abort()
InitFailedReported(e) ==
    /\ Emit(Message("init_failed", NoPath, e.what, "", NoProblem))
    /\ proc' = proc

\* the catch clauses of getTensileHost: message, then rocblas_abort()
InitFailed(e) ==
    /\ Emit(Message("init_failed", NoPath, e.what, "", NoProblem))
    /\ proc' = "aborted"

\* hardware{Tensile::hip::GetCurrentDevice()}
CtorHardware(t) ==
    /\ proc = "running"
    /\ pc[t] = "ctor_hardware"
    /\ \E e \in Outcomes :
         IF e = NoException
         THEN /\ host' = [host EXCEPT !.hardware = [id |-> nextHandle, arch |-> sys.arch]]
              /\ nextHandle' = nextHandle + 1
              /\ pc' = [pc EXCEPT ![t] = "ctor_path"]
              /\ UNCHANGED <<proc, log>>
         ELSE /\ InitFailed(e)
              /\ UNCHANGED <<host, nextHandle, pc>>
    /\ UNCHANGED <<sys, inflight, hostGuard, ctorRuns, path, op, prob,
                   hostRef, tprob, solution, inputs, result, launched, status,
                   caught, calls, once>>
    /\ UNCHANGED <<buildVars, blas2Vars, testVars>>

\* lines 320-351: processor name and search path
CtorPath(t) ==
    /\ proc = "running"
    /\ pc[t] = "ctor_path"
    /\ path' = [path EXCEPT ![t] = SearchPath(sys, Processor(sys.arch))]
    /\ pc' = [pc EXCEPT ![t] = "ctor_glob"]
    /\ UNCHANGED <<sys, inflight, proc, hostGuard, host, ctorRuns, nextHandle,
                   op, prob, hostRef, tprob, solution, inputs, result,
                   launched, status, caught, calls, once, log>>
    /\ UNCHANGED <<buildVars, blas2Vars, testVars>>

GlobPattern(dir, processor) == dir \o <<"*" \o processor \o "*co">>

\* glob() fails with GLOB_NOMATCH exactly when nothing matches; GLOB_ABORTED
\* and GLOB_NOSPACE are failures of the call itself
GlobResults(matches) ==
    (IF matches = {} THEN {"GLOB_NOMATCH"} ELSE {"ok"})
        \cup {"GLOB_ABORTED", "GLOB_NOSPACE"}

\* as GlobFatal, treating an empty match as fatal
GlobFatalNoMatch(g) == g = "GLOB_NOMATCH"

\* lines 363-375: whatever glob() reports, the constructor only warns
GlobFatal(g) == FALSE

\* lines 353-376: load every matching code object, or warn
CtorGlob(t) ==
    /\ proc = "running"
    /\ pc[t] = "ctor_glob"
    /\ LET matches == Glob(sys.fs, path[t], Processor(sys.arch))
       IN  \E g \in GlobResults(matches) :
             IF g = "ok"
             THEN \E e \in Outcomes :
                    IF e = NoException
                    THEN /\ host' = [host EXCEPT !.adapter = @ \cup matches]
                         /\ pc' = [pc EXCEPT ![t] = "ctor_metadata"]
                         /\ UNCHANGED <<proc, log>>
                    ELSE /\ InitFailed(e)
                         /\ UNCHANGED <<host, pc>>
             ELSE /\ Emit(Message("glob_warning",
                                  GlobPattern(path[t], Processor(sys.arch)), g, "",
                                  NoProblem))
                  /\ IF GlobFatal(g)
                     THEN proc' = "aborted" /\ pc' = pc
                     ELSE proc' = proc /\ pc' = [pc EXCEPT ![t] = "ctor_metadata"]
                  /\ host' = host
    /\ UNCHANGED <<sys, inflight, hostGuard, ctorRuns, nextHandle, path, op,
                   prob, hostRef, tprob, solution, inputs, result, launched,
                   status, caught, calls, once>>
    /\ UNCHANGED <<buildVars, blas2Vars, testVars>>

\* as MetadataReadable, without the test
MetadataReadableAlways(fs, p) == TRUE

\* line 379: if(!TestPath(path))
MetadataReadable(fs, p) == TestPath(fs, p)

\* lines 378-384: the metadata file must be readable, or the process aborts
CtorMetadata(t) ==
    /\ proc = "running"
    /\ pc[t] = "ctor_metadata"
    /\ path' = [path EXCEPT ![t] = MetadataPath(path[t])]
    /\ IF MetadataReadable(sys.fs, MetadataPath(path[t]))
       THEN /\ pc' = [pc EXCEPT ![t] = "ctor_load"]
            /\ UNCHANGED <<proc, log>>
       ELSE /\ Emit(Message("cannot_read", MetadataPath(path[t]), "strerror(errno)",
                            "", NoProblem))
            /\ proc' = "aborted"
            /\ pc' = pc
    /\ UNCHANGED <<sys, inflight, hostGuard, host, ctorRuns, nextHandle, op,
                   prob, hostRef, tprob, solution, inputs, result, launched,
                   status, caught, calls, once>>
    /\ UNCHANGED <<buildVars, blas2Vars, testVars>>

\* Tensile::LoadLibraryFile<ContractionProblem>(path) and the
\* dynamic_pointer_cast to MasterSolutionLibrary: null unless the file
\* loads as a master library
LoadLibraryFile(meta, id) ==
    IF meta.master THEN [id |-> id, solutions |-> meta.solutions] ELSE Null

\* lines 386-389, the end of the constructor: its locals die and the
\* guard opens
CtorLoad(t) ==
    /\ proc = "running"
    /\ pc[t] = "ctor_load"
    /\ \E e \in Outcomes :
         IF e = NoException
         THEN /\ host' = [host EXCEPT !.library = LoadLibraryFile(sys.meta, nextHandle)]
              /\ nextHandle' = nextHandle + 1
              /\ hostGuard' = "done"
              /\ path' = [path EXCEPT ![t] = NoPath]
              /\ pc' = [pc EXCEPT ![t] = "getHost"]
              /\ UNCHANGED <<proc, log>>
         ELSE /\ InitFailed(e)
              /\ UNCHANGED <<host, nextHandle, hostGuard, path, pc>>
    /\ UNCHANGED <<sys, inflight, ctorRuns, op, prob, hostRef, tprob,
                   solution, inputs, result, launched, status, caught, calls,
                   once>>
    /\ UNCHANGED <<buildVars, blas2Vars, testVars>>

-----------------------------------------------------------------------------
(* runContractionProblem, lines 426-473 *)

\* as Handler, without the catch(...) clause
HandlerStdOnly(e) == IF e.kind = "std" THEN "std_exception" ELSE None

\* which catch clause takes an exception: catch(const std::exception&),
\* else catch(...)
Handler(e) == IF e.kind = "std" THEN "std_exception" ELSE "unknown_exception"

\* an exception raised inside the try block: the clause's one-shot message,
\* status is left as it is; an exception no clause takes leaves the call
Catch(t, e) ==
    IF Handler(e) \in Sites
    THEN /\ EmitOnce(Handler(e), prob[t].types,
                     Message(e.kind, NoPath, e.what,
                             IF solution[t] # Null THEN "" ELSE "No ", prob[t]))
         /\ caught' = [caught EXCEPT ![t] = e]
         /\ pc' = [pc EXCEPT ![t] = "ret"]
    ELSE /\ pc' = [pc EXCEPT ![t] = "propagated"]
         /\ UNCHANGED <<once, log, caught>>

\* as Construct, with a tensile_prob that the calls in progress share
ConstructShared(t) ==
    /\ proc = "running"
    /\ pc[t] = "construct"
    /\ \E e \in Outcomes :
         IF e = NoException
         THEN /\ \E u \in Threads :
                   /\ prob[u] # NoProblem
                   /\ tprob' = [tprob EXCEPT ![t] = ConstructTensileProblem(prob[u])]
              /\ pc' = [pc EXCEPT ![t] = "find"]
              /\ UNCHANGED <<once, log, caught>>
         ELSE /\ Catch(t, e)
              /\ tprob' = tprob
    /\ UNCHANGED <<sys, inflight, proc, hostGuard, host, ctorRuns, nextHandle,
                   path, op, prob, hostRef, solution, inputs, result,
                   launched, status, calls>>
    /\ UNCHANGED <<buildVars, blas2Vars, testVars>>

\* auto tensile_prob = ConstructTensileProblem(prob)
Construct(t) ==
    /\ proc = "running"
    /\ pc[t] = "construct"
    /\ \E e \in Outcomes :
         IF e = NoException
         THEN /\ tprob' = [tprob EXCEPT ![t] = ConstructTensileProblem(prob[t])]
              /\ pc' = [pc EXCEPT ![t] = "find"]
              /\ UNCHANGED <<once, log, caught>>
         ELSE /\ Catch(t, e)
              /\ tprob' = tprob
    /\ UNCHANGED <<sys, inflight, proc, hostGuard, host, ctorRuns, nextHandle,
                   path, op, prob, hostRef, solution, inputs, result,
                   launched, status, calls>>
    /\ UNCHANGED <<buildVars, blas2Vars, testVars>>

\* library->findBestSolution(problem, hardware): the fittest solution of the
\* catalogue that applies to the problem on this hardware, or none
findBestSolution(library, problem, hardware) ==
    LET applies == { s \in library.solutions :
                       /\ s.arch = hardware.arch
                       /\ s.dataType = problem.a.dataType
                       /\ s.hpa = problem.highPrecisionAccumulate
                       /\ s.m = problem.d.sizes[1] }
    IN  IF applies = {} THEN Null
        ELSE CHOOSE s \in applies : \A o \in applies : s.id >= o.id

\* as SolutionFound, taking the launch branch whatever the lookup returned
SolutionFoundAlways(sol) == TRUE

\* line 431: if(!solution) ... else
SolutionFound(sol) == sol # Null

\* lines 429-436: the lookup and, when it finds nothing, the one-shot
\* diagnostic and rocblas_status_not_implemented.  Calling through a null
\* library pointer is undefined; the build faults on it.
Find(t) ==
    /\ proc = "running"
    /\ pc[t] = "find"
    /\ IF host.library = Null
       THEN /\ proc' = "crashed"
            /\ UNCHANGED <<pc, solution, status, once, log, caught>>
       ELSE /\ proc' = proc
            /\ \E e \in Outcomes :
                 IF e = NoException
                 THEN LET found == findBestSolution(host.library, tprob[t], host.hardware)
                      IN  /\ solution' = [solution EXCEPT ![t] = found]
                          /\ caught' = caught
                          /\ IF SolutionFound(found)
                             THEN /\ pc' = [pc EXCEPT ![t] = "launch"]
                                  /\ UNCHANGED <<status, once, log>>
                             ELSE /\ EmitOnce("no_solution", prob[t].types,
                                              Message("no_solution", NoPath, "", "No ",
                                                      prob[t]))
                                  /\ status' = [status EXCEPT ![t] = "not_implemented"]
                                  /\ pc' = [pc EXCEPT ![t] = "ret"]
                 ELSE /\ Catch(t, e)
                      /\ UNCHANGED <<solution, status>>
    /\ UNCHANGED <<sys, inflight, hostGuard, host, ctorRuns, nextHandle, path,
                   op, prob, hostRef, tprob, inputs, result, launched, calls>>
    /\ UNCHANGED <<buildVars, blas2Vars, testVars>>

\* solution->solve(tensile_prob, inputs, *host.hardware): the kernel
\* invocation built from the solution
solve(sol, problem, in, hardware) ==
    [set |-> TRUE, kernel |-> sol.id, problem |-> problem, inputs |-> in,
     hardware |-> hardware.id]

\* as TimingMarkers, satisfied by either event alone
TimingMarkersEither(handle) == handle.startEvent # None \/ handle.stopEvent # None

\* line 443: which launchKernels overload is called
TimingMarkers(handle) == handle.startEvent # None /\ handle.stopEvent # None

\* the launch request handed to host.adapter; the overload without events
\* is given no stream
LaunchRequest(handle, res, adapter) ==
    IF TimingMarkers(handle)
    THEN [set |-> TRUE, result |-> res, submission |-> "events",
          stream |-> handle.stream, startEvent |-> handle.startEvent,
          stopEvent |-> handle.stopEvent, modules |-> adapter]
    ELSE [set |-> TRUE, result |-> res, submission |-> "plain",
          stream |-> None, startEvent |-> None, stopEvent |-> None,
          modules |-> adapter]

\* the stream no launch names: hipStream_t 0, the default stream
DefaultStream == "stream0"

\* the stream a launch request is enqueued on: the one passed at line 447;
\* the overload of line 451 is passed none and enqueues on the default stream
EnqueuedOn(req) == IF req.stream = None THEN DefaultStream ELSE req.stream

\* lines 439-454, the branch taken when a solution was found: marshal the
\* inputs, build the kernel invocation, submit it, then
\* status = rocblas_status_success.  An exception raised by any of the three
\* calls leaves the same state: the catch clause's one-shot message.
Launch(t) ==
    /\ proc = "running"
    /\ pc[t] = "launch"
    /\ \E e \in Outcomes :
         IF e = NoException
         THEN LET in  == GetTensileInputs(prob[t])
                  res == solve(solution[t], tprob[t], in, host.hardware)
              IN  /\ inputs' = [inputs EXCEPT ![t] = in]
                  /\ result' = [result EXCEPT ![t] = res]
                  /\ launched' = [launched EXCEPT ![t] =
                                    LaunchRequest(prob[t].handle, res, host.adapter)]
                  /\ inflight' = inflight + 1
                  /\ status' = [status EXCEPT ![t] = "success"]
                  /\ pc' = [pc EXCEPT ![t] = "ret"]
                  /\ UNCHANGED <<once, log, caught>>
         ELSE /\ Catch(t, e)
              /\ UNCHANGED <<inputs, result, launched, status, inflight>>
    /\ UNCHANGED <<sys, proc, hostGuard, host, ctorRuns, nextHandle, path, op,
                   prob, hostRef, tprob, solution, calls>>
    /\ UNCHANGED <<buildVars, blas2Vars, testVars>>

\* as MayReturn, for a call that waits until the device has run its kernel
MayReturnWhenComplete(t) == launched[t] = NoLaunch \/ inflight = 0

\* lines 453-473: nothing stands between the submission and `return status`
MayReturn(t) == TRUE

\* `return status` (or the return of rocblas_initialize); the call's locals die
Return(t) ==
    /\ proc = "running"
    /\ pc[t] = "ret"
    /\ MayReturn(t)
    /\ pc' = [pc EXCEPT ![t] = "idle"]
    /\ op' = [op EXCEPT ![t] = None]
    /\ prob' = [prob EXCEPT ![t] = NoProblem]
    /\ hostRef' = [hostRef EXCEPT ![t] = NoHost]
    /\ tprob' = [tprob EXCEPT ![t] = NoTensileProblem]
    /\ solution' = [solution EXCEPT ![t] = Null]
    /\ inputs' = [inputs EXCEPT ![t] = NoInputs]
    /\ result' = [result EXCEPT ![t] = NoResult]
    /\ launched' = [launched EXCEPT ![t] = NoLaunch]
    /\ status' = [status EXCEPT ![t] = None]
    /\ caught' = [caught EXCEPT ![t] = NoException]
    /\ UNCHANGED <<sys, inflight, proc, hostGuard, host, ctorRuns, nextHandle,
                   path, calls, once, log>>
    /\ UNCHANGED <<buildVars, blas2Vars, testVars>>

\* the device finishes a kernel that was enqueued, in its own time
DeviceComplete ==
    /\ proc = "running"
    /\ inflight > 0
    /\ inflight' = inflight - 1
    /\ UNCHANGED <<sys, proc, hostGuard, host, ctorRuns, nextHandle, path, pc,
                   op, prob, hostRef, tprob, solution, inputs, result, launched,
                   status, caught, calls, once, log>>
    /\ UNCHANGED <<buildVars, blas2Vars, testVars>>

Next ==
    \/ DeviceComplete
    \/ \E t \in Threads :
           \/ CallRun(t)
           \/ CallInitialize(t)
           \/ GetHostConstruct(t)
           \/ GetHostReturn(t)
           \/ CtorHardware(t)
           \/ CtorPath(t)
           \/ CtorGlob(t)
           \/ CtorMetadata(t)
           \/ CtorLoad(t)
           \/ Construct(t)
           \/ Find(t)
           \/ Launch(t)
           \/ Return(t)

Spec == Init /\ [][Next]_vars

-----------------------------------------------------------------------------
(* The builder and the marshaller on their own: every instantiated type     *)
(* triple, every transpose combination, sizes up to MaxDim                   *)

\* where a request's alpha and beta pointers may point
PointerModes == {"host", "device"}

\* a host read that did not return
Faulted == [type |-> "fault", v |-> 0]

\* what the host gets by reading a scalar through its pointer: the scalar
\* when it is in host memory; reading device memory from the host is
\* undefined, the read faults or yields some bytes
HostDeref(mode, s) ==
    IF mode = "host"
    THEN {s}
    ELSE {Faulted} \cup { Scalar(s.type, g) : g \in ScalarValues }

\* line 197: value_category(*prob.beta)
ReadsOfConstruct(p) == {"beta"}

\* as ReadsOfMarshal, copying alpha whatever k is
ReadsOfMarshalBoth(p) == {"alpha", "beta"}

\* lines 278-282: alpha is copied unless k == 0, beta always
ReadsOfMarshal(p) == (IF p.k = 0 THEN {} ELSE {"alpha"}) \cup {"beta"}

BuildProblem ==
    /\ bstage = "request"
    /\ \E b \in HostDeref(bmode, bprob.beta) :
         IF b = Faulted
         THEN bstage' = "fault" /\ btprob' = btprob
         ELSE /\ btprob' = ConstructTensileProblem([bprob EXCEPT !.beta = b])
              /\ bstage' = "problem"
    /\ breads' = breads \cup ReadsOfConstruct(bprob)
    /\ UNCHANGED <<bprob, binputs, bmode>>
    /\ UNCHANGED <<procVars, blas2Vars, testVars>>

BuildInputs ==
    /\ bstage = "problem"
    /\ \E a \in (IF "alpha" \in ReadsOfMarshal(bprob)
                  THEN HostDeref(bmode, bprob.alpha) ELSE {bprob.alpha}),
          b \in HostDeref(bmode, bprob.beta) :
         IF Faulted \in {a, b}
         THEN bstage' = "fault" /\ binputs' = binputs
         ELSE /\ binputs' = GetTensileInputs([bprob EXCEPT !.alpha = a, !.beta = b])
              /\ bstage' = "inputs"
    /\ breads' = breads \cup ReadsOfMarshal(bprob)
    /\ UNCHANGED <<bprob, btprob, bmode>>
    /\ UNCHANGED <<procVars, blas2Vars, testVars>>

InitBuild ==
    /\ ProcInit({CHOOSE s \in SysChoices : s.env = EnvDir /\ s.arch = 906
                                           /\ s.meta.master
                                           /\ TestPath(s.fs, MetadataPath(EnvDir))})
    /\ bprob \in BuildProblems
    /\ btprob = NoTensileProblem
    /\ binputs = NoInputs
    /\ bstage = "request"
    /\ bmode = "host"
    /\ breads = {}
    /\ Blas2Idle

NextBuild == BuildProblem \/ BuildInputs

SpecBuild == InitBuild /\ [][NextBuild]_vars

\* filesystems for the path discovery: one with a library installed in
\* every directory a discovery step can name (under the environment's
\* directory as well), and one with the default installation only
FullFs ==
    UNION { Install(d) :
              d \in { EnvDir, EnvDir \o <<"gfx906">>, EnvDir \o <<"library">>,
                      EnvDir \o <<"library", "gfx906">>,
                      dirname(DliFname) \o <<"library">>,
                      dirname(DliFname) \o <<"library", "gfx906">>,
                      <<"opt", "Tensile", "library">>,
                      HardCodedLibDir \o <<"library">> } }

PathSysChoices ==
    { [env |-> e, dladdr |-> d, fs |-> f, arch |-> 906,
       meta |-> [master |-> TRUE, solutions |-> Catalogue]] :
        e \in {NoPath, EnvDir}, d \in {NoPath, DliFname},
        f \in {FullFs, Install(dirname(DliFname) \o <<"library", "gfx906">>)} }

InitPath == ProcInit(PathSysChoices) /\ BuildIdle /\ Blas2Idle

SpecPath == InitPath /\ [][Next]_vars

\* ConstructTensileProblem and GetTensileInputs are templates over any
\* (Ti, To, Tc): besides an instantiated triple, the pairing of float input,
\* half output and float compute, which no instantiation of
\* runContractionProblem (lines 490-511) carries
TemplateTriples == { <<"float", "half", "float">>, <<"half", "half", "float">> }

TemplateProblems ==
    { RocblasContractionProblem(PlainHandle, ty, ta, tb, m, n, k, 5, 2, RunLayout, 1) :
        ty \in TemplateTriples, ta \in Operations, tb \in Operations,
        m \in 1..MaxDim, n \in 1..MaxDim, k \in 0..MaxDim }

InitTemplate ==
    /\ ProcInit({CHOOSE s \in SysChoices : s.env = EnvDir /\ s.arch = 906
                                           /\ s.meta.master
                                           /\ TestPath(s.fs, MetadataPath(EnvDir))})
    /\ bprob \in TemplateProblems
    /\ btprob = NoTensileProblem
    /\ binputs = NoInputs
    /\ bstage = "request"
    /\ bmode = "host"
    /\ breads = {}
    /\ Blas2Idle

SpecTemplate == InitTemplate /\ [][NextBuild]_vars

\* requests whose alpha and beta are host-resident or device-resident
PointerProblems ==
    { RocblasContractionProblem(PlainHandle, ty, "none", "none", 1, 1, k, al, be,
                                RunLayout, 1) :
        ty \in RunTypes, k \in 0..MaxDim, al \in {5, 2049}, be \in ScalarValues }

InitPointerMode ==
    /\ ProcInit({CHOOSE s \in SysChoices : s.env = EnvDir /\ s.arch = 906
                                           /\ s.meta.master
                                           /\ TestPath(s.fs, MetadataPath(EnvDir))})
    /\ bprob \in PointerProblems
    /\ btprob = NoTensileProblem
    /\ binputs = NoInputs
    /\ bstage = "request"
    /\ bmode \in PointerModes
    /\ breads = {}
    /\ Blas2Idle

SpecPointerMode == InitPointerMode /\ [][NextBuild]_vars


-----------------------------------------------------------------------------
(* rocblas_chbmv_batched and rocblas_zhbmv_batched                           *)
(* (library/src/blas2/rocblas_hbmv_batched.cpp)                              *)

Nullptr == "nullptr"

\* the layers of handle->layer_mode the function tests
LogLayers == {"trace", "bench", "profile"}

\* a rocblas_handle: null, or a handle with its device-memory-size query
\* flag, its layer_mode and its pointer_mode
NullHandle == [null |-> TRUE, query |-> FALSE, layer_mode |-> {}, pointer_mode |-> "host"]

Handle(query, layers, pmode) ==
    [null |-> FALSE, query |-> query, layer_mode |-> layers, pointer_mode |-> pmode]

Blas2Handles ==
    { NullHandle,
      Handle(FALSE, {}, "host"),
      Handle(TRUE, {}, "host"),
      Handle(FALSE, LogLayers, "host"),
      Handle(FALSE, LogLayers, "device") }

\* the two C entry points and the T each instantiates the implementation with
HbmvEntries ==
    { [name |-> "rocblas_chbmv_batched", T |-> "float_complex"],
      [name |-> "rocblas_zhbmv_batched", T |-> "double_complex"] }

\* lines 9-14
rocblas_hbmv_name(T) ==
    CASE T = "float_complex"  -> "rocblas_chbmv_batched"
      [] T = "double_complex" -> "rocblas_zhbmv_batched"
      [] OTHER                -> "unknown"

Pointers == {Nullptr, "ptr"}

\* the arguments of a call; uplo is passed through and takes part in no test
HbmvArgs ==
    { [entry |-> e, handle |-> h, uplo |-> "upper", n |-> n, k |-> k,
       alpha |-> al, A |-> pA, lda |-> lda, x |-> px, incx |-> incx,
       beta |-> be, y |-> py, incy |-> incy, batch_count |-> bc] :
        e \in HbmvEntries, h \in Blas2Handles,
        n \in -1..MaxDim, k \in -1..1, lda \in 0..MaxDim,
        incx \in {0, 1}, incy \in {0, -1}, bc \in -1..1,
        al \in Pointers, pA \in Pointers, px \in Pointers,
        be \in Pointers, py \in Pointers }

\* line 33, RETURN_ZERO_DEVICE_MEMORY_SIZE_IF_QUERIED(handle): a handle that
\* is answering a device-memory-size query makes the function return here;
\* the routine needs no device memory, and the query reports the size as
\* unchanged
DeviceMemorySizeQueried(handle) == handle.query

QueryStatus == "size_unchanged"

\* lines 35-119: the layers written; the bench line is written in host
\* pointer mode only
hbmv_logging(a) ==
    LET lm == a.handle.layer_mode
        name == rocblas_hbmv_name(a.entry.T)
    IN  (IF "trace" \in lm THEN {<<"trace", name>>} ELSE {})
        \cup (IF "bench" \in lm /\ a.handle.pointer_mode = "host"
              THEN {<<"bench", name>>} ELSE {})
        \cup (IF "profile" \in lm THEN {<<"profile", name>>} ELSE {})

\* line 121
InvalidSize(a) ==
    a.n < 0 \/ a.k < 0 \/ a.lda <= a.k \/ a.incx = 0 \/ a.incy = 0
        \/ a.batch_count < 0

\* as QuickReturn, without the early return
QuickReturnNever(a) == FALSE

\* line 124
QuickReturn(a) == a.n = 0 \/ a.batch_count = 0

\* line 127
InvalidPointer(a) ==
    Nullptr \in {a.A, a.x, a.y, a.alpha, a.beta}

\* what rocblas_hbmv_template can do: return a status, or throw
TemplateOutcomes ==
    { [status |-> st, thrown |-> NoException] : st \in {"success", "internal_error"} }
    \cup { [status |-> None, thrown |-> e] : e \in Exceptions }

Returned(st, lg) ==
    [status |-> st, thrown |-> NoException, invoked |-> FALSE, logged |-> lg]

\* lines 17-149; out is the outcome of rocblas_hbmv_template when invoked
rocblas_hbmv_batched_impl(a, out) ==
    IF a.handle.null
    THEN Returned("invalid_handle", {})
    ELSE IF DeviceMemorySizeQueried(a.handle)
    THEN Returned(QueryStatus, {})
    ELSE LET lg == hbmv_logging(a)
         IN  IF InvalidSize(a) THEN Returned("invalid_size", lg)
             ELSE IF QuickReturn(a) THEN Returned("success", lg)
             ELSE IF InvalidPointer(a) THEN Returned("invalid_pointer", lg)
             ELSE [status |-> out.status, thrown |-> out.thrown,
                   invoked |-> TRUE, logged |-> lg]

\* lines 181 and 204: the status an exception is turned into
exception_to_rocblas_status(e) == "internal_error"

\* lines 179 and 202, catch(...): every exception is caught
HbmvCatches(e) == TRUE

\* lines 161-205: the function-try-block around the implementation
rocblas_hbmv_batched(a, out) ==
    LET r == rocblas_hbmv_batched_impl(a, out)
    IN  IF r.thrown # NoException /\ HbmvCatches(r.thrown)
        THEN [r EXCEPT !.status = exception_to_rocblas_status(r.thrown),
                       !.thrown = NoException]
        ELSE r

\* one call of a C entry point, from entry to return
CallHbmvBatched ==
    /\ l2stage = "call"
    /\ \E out \in TemplateOutcomes :
         LET r == rocblas_hbmv_batched(l2args, out)
         IN  /\ l2status' = r.status
             /\ l2invoked' = r.invoked
             /\ l2logged' = r.logged
             /\ l2stage' = IF r.thrown = NoException THEN "returned" ELSE "unwound"
    /\ UNCHANGED <<l2args, testVars>>
    /\ UNCHANGED <<procVars, buildVars>>

InitHbmv ==
    /\ ProcInit({CHOOSE s \in SysChoices : s.env = EnvDir /\ s.arch = 906
                                           /\ s.meta.master
                                           /\ TestPath(s.fs, MetadataPath(EnvDir))})
    /\ BuildIdle
    /\ l2args \in HbmvArgs
    /\ l2stage = "call"
    /\ l2status = None
    /\ l2invoked = FALSE
    /\ l2logged = {}
    /\ testArg = NoArgs
    /\ testPc = "off"
    /\ testChecks = <<>>

NextHbmv == CallHbmvBatched

SpecHbmv == InitHbmv /\ [][NextHbmv]_vars

-----------------------------------------------------------------------------
(* rocblas_hemv as its tests call it (clients/include/testing_hemv.hpp)      *)

\* the contract of rocblas_hemv the tests are written against: the handle
\* first, then the sizes, then the pointers
rocblas_hemv(a) ==
    IF a.handle.null THEN "invalid_handle"
    ELSE IF a.N < 0 \/ a.lda < a.N \/ a.lda < 1 \/ a.incx = 0 \/ a.incy = 0
    THEN "invalid_size"
    ELSE IF Nullptr \in {a.A, a.x, a.y, a.alpha, a.beta}
    THEN "invalid_pointer"
    ELSE "success"

\* lines 32 and 82: rocblas_local_handle, a created handle
LocalHandle == Handle(FALSE, {}, "host")

\* lines 159, 163, 196: rocblas_set_pointer_mode
rocblas_set_pointer_mode(handle, mode) == [handle EXCEPT !.pointer_mode = mode]

HemvCall(handle, N, alpha, pA, lda, px, incx, beta, py, incy) ==
    [handle |-> handle, uplo |-> "upper", N |-> N, alpha |-> alpha, A |-> pA,
     lda |-> lda, x |-> px, incx |-> incx, beta |-> beta, y |-> py, incy |-> incy]

\* lines 23-26: the sizes testing_hemv_bad_arg calls with
BadArgSizes == [N |-> 100, lda |-> 100, incx |-> 1, incy |-> 1]

\* lines 46-68: the calls of testing_hemv_bad_arg, in order, each with the
\* status it expects
BadArgCalls ==
    LET z == BadArgSizes
        call(h, al, pA, px, be, py) ==
            HemvCall(h, z.N, al, pA, z.lda, px, z.incx, be, py, z.incy)
    IN  << [call |-> call(LocalHandle, "ptr", Nullptr, "ptr", "ptr", "ptr"),
            expect |-> "invalid_pointer"],
           [call |-> call(LocalHandle, "ptr", "ptr", Nullptr, "ptr", "ptr"),
            expect |-> "invalid_pointer"],
           [call |-> call(LocalHandle, "ptr", "ptr", "ptr", "ptr", Nullptr),
            expect |-> "invalid_pointer"],
           [call |-> call(LocalHandle, Nullptr, "ptr", "ptr", "ptr", "ptr"),
            expect |-> "invalid_pointer"],
           [call |-> call(LocalHandle, "ptr", "ptr", "ptr", Nullptr, "ptr"),
            expect |-> "invalid_pointer"],
           [call |-> call(NullHandle, "ptr", "ptr", "ptr", "ptr", "ptr"),
            expect |-> "invalid_handle"] >>

\* EXPECT_ROCBLAS_STATUS and CHECK_ROCBLAS_ERROR: the call is made and its
\* status recorded next to the status expected
Expect(call, expected) ==
    [call |-> call, expect |-> expected, got |-> rocblas_hemv(call)]

\* the Arguments testing_hemv reads (lines 74-80) and the check flags
HemvArguments ==
    { [set |-> TRUE, T |-> T, N |-> N, lda |-> lda, incx |-> incx, incy |-> incy,
       unit_check |-> u, norm_check |-> v] :
        T \in {"float_complex", "double_complex"},
        N \in -1..MaxDim, lda \in 0..MaxDim, incx \in {-1, 0, 1},
        incy \in {0, 1}, u \in BOOLEAN, v \in BOOLEAN }

\* as HemvSanityFails, without the test of lda against 1
HemvSanityFailsNoLdaOne(arg) ==
    arg.N < 0 \/ arg.lda < arg.N \/ arg.incx = 0 \/ arg.incy = 0

\* line 85
HemvSanityFails(arg) ==
    arg.N < 0 \/ arg.lda < arg.N \/ arg.lda < 1 \/ arg.incx = 0 \/ arg.incy = 0

\* testing_hemv_bad_arg, lines 46-68: the next EXPECT_ROCBLAS_STATUS
TestBadArg ==
    /\ testPc = "bad_arg"
    /\ Len(testChecks) < Len(BadArgCalls)
    /\ LET c == BadArgCalls[Len(testChecks) + 1]
       IN  testChecks' = Append(testChecks, Expect(c.call, c.expect))
    /\ testPc' = IF Len(testChecks') = Len(BadArgCalls) THEN "done" ELSE "bad_arg"
    /\ UNCHANGED <<testArg, blas2Vars, procVars, buildVars>>

\* testing_hemv, lines 84-93: the argument sanity check and, when it fails,
\* the call with null A, x and y
TestSanity ==
    /\ testPc = "sanity"
    /\ IF HemvSanityFails(testArg)
       THEN /\ testChecks' =
                   Append(testChecks,
                          Expect(HemvCall(LocalHandle, testArg.N, "ptr", Nullptr,
                                          testArg.lda, Nullptr, testArg.incx,
                                          "ptr", Nullptr, testArg.incy),
                                 "invalid_size"))
            /\ testPc' = "done"
       ELSE /\ testChecks' = testChecks
            /\ testPc' = IF testArg.unit_check \/ testArg.norm_check
                         THEN "host_mode" ELSE "done"
    /\ UNCHANGED <<testArg, blas2Vars, procVars, buildVars>>

\* lines 159-161: the call in host pointer mode on allocated vectors
TestHostMode ==
    /\ testPc = "host_mode"
    /\ testChecks' =
           Append(testChecks,
                  Expect(HemvCall(rocblas_set_pointer_mode(LocalHandle, "host"),
                                  testArg.N, "ptr", "ptr", testArg.lda, "ptr",
                                  testArg.incx, "ptr", "ptr", testArg.incy),
                         "success"))
    /\ testPc' = "device_mode"
    /\ UNCHANGED <<testArg, blas2Vars, procVars, buildVars>>

\* lines 163-165: the call in device pointer mode
TestDeviceMode ==
    /\ testPc = "device_mode"
    /\ testChecks' =
           Append(testChecks,
                  Expect(HemvCall(rocblas_set_pointer_mode(LocalHandle, "device"),
                                  testArg.N, "ptr", "ptr", testArg.lda, "ptr",
                                  testArg.incx, "ptr", "ptr", testArg.incy),
                         "success"))
    /\ testPc' = "done"
    /\ UNCHANGED <<testArg, blas2Vars, procVars, buildVars>>

InitHemvTest ==
    /\ ProcInit({CHOOSE s \in SysChoices : s.env = EnvDir /\ s.arch = 906
                                           /\ s.meta.master
                                           /\ TestPath(s.fs, MetadataPath(EnvDir))})
    /\ BuildIdle
    /\ l2args = NoArgs
    /\ l2stage = "off"
    /\ l2status = None
    /\ l2invoked = FALSE
    /\ l2logged = {}
    /\ \/ testArg = NoArgs /\ testPc = "bad_arg"
       \/ testArg \in HemvArguments /\ testPc = "sanity"
    /\ testChecks = <<>>

NextHemvTest == TestBadArg \/ TestSanity \/ TestHostMode \/ TestDeviceMode

SpecHemvTest == InitHemvTest /\ [][NextHemvTest]_vars

-----------------------------------------------------------------------------
(* Properties of runContractionProblem's status *)

StatusCodes == {"success", "not_implemented", "internal_error"}

\* the thread is at `return status` of runContractionProblem
Returning(t) == pc[t] = "ret" /\ op[t] = "run"

\* C1: every call of runContractionProblem that returns, returns success,
\* not_implemented or internal_error, and no exception raised inside the call
\* leaves it
C1_ClosedStatusNoEscape ==
    \A t \in Threads :
        /\ pc[t] # "propagated"
        /\ Returning(t) => status[t] \in StatusCodes

\* a call whose body raised something that is no std::exception returns
\* internal_error
C1_Witness ==
    \E t \in Threads :
        Returning(t) /\ caught[t].kind = "unknown" /\ status[t] = "internal_error"

\* C2: when the lookup returns no solution the call returns not_implemented
\* having marshalled nothing and launched nothing; whatever is launched is
\* the solution the lookup returned
C2_NoFallback ==
    \A t \in Threads :
        /\ (Returning(t) /\ caught[t] = NoException /\ solution[t] = Null)
              => /\ status[t] = "not_implemented"
                 /\ inputs[t] = NoInputs
                 /\ launched[t] = NoLaunch
        /\ (inputs[t] # NoInputs \/ launched[t] # NoLaunch)
              => /\ solution[t] # Null
                 /\ solution[t] = findBestSolution(host.library, tprob[t], host.hardware)
                 /\ launched[t] # NoLaunch
                 /\ launched[t].result.kernel = solution[t].id

\* a call returns not_implemented after a lookup that found nothing
C2_Witness ==
    \E t \in Threads :
        /\ Returning(t) /\ status[t] = "not_implemented"
        /\ tprob[t] # NoTensileProblem /\ solution[t] = Null

\* C3: a call in which an exception was raised returns internal_error;
\* success is returned only when a solution was found and its launch was
\* submitted without an exception
C3_ExceptionIsInternalError ==
    \A t \in Threads :
        Returning(t) =>
            /\ caught[t] # NoException => status[t] = "internal_error"
            /\ status[t] = "success"
                  => /\ solution[t] # Null
                     /\ launched[t] # NoLaunch
                     /\ caught[t] = NoException

\* an exception raised after a solution was found
C3_Witness ==
    \E t \in Threads :
        Returning(t) /\ caught[t] # NoException /\ solution[t] # Null


-----------------------------------------------------------------------------
(* Properties of the problem builder and the input marshaller *)

HalfFloat == <<"half", "half", "float">>

\* the extent the A and B descriptors carry at their bound positions
\* (Tensile positions count from 0)
ContractionExtentA == btprob.a.sizes[btprob.boundIndex[1].a + 1]
ContractionExtentB == btprob.b.sizes[btprob.boundIndex[1].b + 1]

\* C4 as stated: for k == 0 the marshalled alpha is zero, the marshalled
\* beta equals the caller's beta and the contraction extent of A and B is 1;
\* for k != 0 the marshalled alpha equals the caller's alpha and the
\* contraction extent is k
C4_ScalarsPassedUnchanged ==
    bstage = "inputs" =>
        IF bprob.k = 0
        THEN /\ binputs.alpha.v = 0
             /\ binputs.beta.v = bprob.beta.v
             /\ ContractionExtentA = 1 /\ ContractionExtentB = 1
        ELSE /\ binputs.alpha.v = bprob.alpha.v
             /\ ContractionExtentA = bprob.k /\ ContractionExtentB = bprob.k

\* the caller's scalar in the kernel's scalar type: the same value for every
\* type triple but (half, half, float), whose float is rounded to half
KernelNative(types, v) == IF types = HalfFloat THEN FloatToHalf(v) ELSE v

\* C4 amended: for k == 0 the marshalled alpha is zero, the marshalled beta
\* is the caller's beta in the kernel's scalar type (rounded to half
\* precision for (half, half, float), the caller's value otherwise) and the
\* contraction extent of A and B is 1; for k != 0 the marshalled alpha is
\* the caller's alpha in the kernel's scalar type and the extent is k;
\* beta is marshalled the same way for every k
C4_ScalarsInKernelType ==
    bstage = "inputs" =>
        /\ binputs.beta.v = KernelNative(bprob.types, bprob.beta.v)
        /\ bprob.types # HalfFloat => binputs.beta.v = bprob.beta.v
        /\ binputs.alpha.type = binputs.beta.type
        /\ IF bprob.k = 0
           THEN /\ binputs.alpha.v = 0
                /\ ContractionExtentA = 1 /\ ContractionExtentB = 1
           ELSE /\ binputs.alpha.v = KernelNative(bprob.types, bprob.alpha.v)
                /\ bprob.types # HalfFloat => binputs.alpha.v = bprob.alpha.v
                /\ ContractionExtentA = bprob.k /\ ContractionExtentB = bprob.k

\* a (half, half, float) request with k == 0, a nonzero alpha and a beta
\* that is no half-precision value has been marshalled
C4_Witness ==
    /\ bstage = "inputs"
    /\ bprob.k = 0 /\ bprob.alpha.v # 0
    /\ bprob.types = HalfFloat /\ bprob.beta.v = 2049
    /\ binputs.beta.v = 2048

Transposed(trans) == trans \in {"transpose", "conjugate_transpose"}

\* C10: A is described with extents {m, k', batch}, free position 0 and
\* bound position 1 when not transposed, and {k', m, batch}, free 1, bound 0
\* when transposed or conjugate-transposed; B with {k', n, batch}, free 1,
\* bound 0 when not transposed, and {n, k', batch}, free 0, bound 1 when
\* transposed; k' is 1 for k == 0 and k otherwise; the leading dimension is
\* the stride of the second dimension of each operand
C10_TransposeSwapsFreeAndBound ==
    bstage \in {"problem", "inputs"} =>
        LET kk == IF bprob.k = 0 THEN 1 ELSE bprob.k
            fa == btprob.freeIndex[1]
            fb == btprob.freeIndex[2]
            bd == btprob.boundIndex[1]
        IN  /\ fa.isA /\ ~fb.isA
            /\ IF Transposed(bprob.trans_a)
               THEN /\ btprob.a.sizes = <<kk, bprob.m, bprob.batch_count>>
                    /\ fa.i = 1 /\ bd.a = 0
               ELSE /\ btprob.a.sizes = <<bprob.m, kk, bprob.batch_count>>
                    /\ fa.i = 0 /\ bd.a = 1
            /\ IF Transposed(bprob.trans_b)
               THEN /\ btprob.b.sizes = <<bprob.n, kk, bprob.batch_count>>
                    /\ fb.i = 0 /\ bd.b = 1
               ELSE /\ btprob.b.sizes = <<kk, bprob.n, bprob.batch_count>>
                    /\ fb.i = 1 /\ bd.b = 0
            /\ btprob.a.strides[2] = bprob.ld_a
            /\ btprob.b.strides[2] = bprob.ld_b
            /\ btprob.c.strides[2] = bprob.ld_c
            /\ btprob.d.strides[2] = bprob.ld_d

\* a problem was built for a conjugate-transposed A and an untransposed B
\* with m, n and the contraction extent pairwise different
C10_Witness ==
    /\ bstage = "problem"
    /\ bprob.trans_a = "conjugate_transpose" /\ bprob.trans_b = "none"
    /\ bprob.m = 2 /\ bprob.n = 1 /\ bprob.k = 0
    /\ btprob.a.sizes[1] = 1 /\ btprob.a.sizes[2] = 2


-----------------------------------------------------------------------------
(* Properties of the initialization *)

CtorSteps == {"ctor_hardware", "ctor_path", "ctor_glob", "ctor_metadata", "ctor_load"}

\* what must hold in every state for C5
C5_OneHost ==
    /\ ctorRuns <= 1
    /\ (ctorRuns = 0) <=> (hostGuard = "uninit")
    /\ Cardinality({t \in Threads : pc[t] \in CtorSteps}) <= 1
    /\ \A t \in Threads :
         hostRef[t] # NoHost =>
            /\ ctorRuns = 1 /\ hostGuard = "done"
            /\ hostRef[t].hardware = host.hardware
            /\ hostRef[t].library = host.library
            /\ \A u \in Threads : hostRef[u] # NoHost => hostRef[u] = hostRef[t]

\* what must hold of every step for C5
C5_HostFrozen ==
    hostGuard = "done" => host' = host /\ ctorRuns' = ctorRuns /\ hostGuard' = "done"

\* C5: however the first calls of getTensileHost interleave, the TensileHost
\* constructor runs once, every caller that gets the host gets the same
\* object with the same hardware descriptor and library handle, and once
\* constructed the host never changes, so later callers get it too
C5_ConstructedOnceSharedByAll == []C5_OneHost /\ [][C5_HostFrozen]_vars

\* two threads hold the host at the same time after the one construction
C5_Witness ==
    \E t, u \in Threads :
        /\ t # u /\ ctorRuns = 1
        /\ hostRef[t] # NoHost /\ hostRef[u] # NoHost
        /\ hostRef[t].library # Null

\* the thread is inside the body of runContractionProblem, past getTensileHost
InCallBody(t) == pc[t] \in {"construct", "find", "launch"} \/ Returning(t)

\* what must hold in every state for C6
C6_InitializedBeforeUse ==
    \A t \in Threads :
        /\ InCallBody(t) =>
              /\ hostGuard = "done"
              /\ hostRef[t] = host
              /\ host.hardware # Null
              /\ \A u \in Threads : pc[u] \notin CtorSteps
        /\ (pc[t] = "getHost" /\ hostGuard # "done") =>
              /\ hostRef[t] = NoHost
              /\ tprob[t] = NoTensileProblem /\ solution[t] = Null
              /\ inputs[t] = NoInputs /\ launched[t] = NoLaunch

\* what must hold of every step for C6: a caller that finds the
\* initialization running stays in getTensileHost
C6_Blocked ==
    \A t \in Threads :
        (pc[t] = "getHost" /\ hostGuard = "initializing") => pc'[t] = "getHost"

\* C6: no caller builds a problem, looks up a solution, marshals or launches
\* before the initializer has finished; a thread that calls
\* runContractionProblem while another thread initializes waits in
\* getTensileHost until the initialization is complete and then sees the
\* complete host
C6_NoUseBeforeInitialized == []C6_InitializedBeforeUse /\ [][C6_Blocked]_vars

\* a runContractionProblem caller is waiting while another thread is inside
\* the constructor
C6_Witness ==
    \E t, u \in Threads :
        /\ pc[t] = "getHost" /\ op[t] = "run"
        /\ pc[u] \in CtorSteps /\ hostGuard = "initializing"

\* line 378: path += "/TensileLibrary.yaml", for this process's search path
MetadataFile == MetadataPath(SearchPath(sys, Processor(sys.arch)))

MetadataMissing == ~TestPath(sys.fs, MetadataFile)

\* C7: when the master metadata file is missing the constructor goes no
\* further than the test of the file, the process aborts there after one
\* message naming that file, the initialization never completes and no
\* call gets as far as a status, let alone returns one
C7_MissingMetadataAborts ==
    /\ \A t \in Threads : pc[t] = "ctor_load" => ~MetadataMissing
    /\ MetadataMissing =>
          /\ hostGuard # "done"
          /\ \A t \in Threads :
               /\ ~InCallBody(t) /\ pc[t] # "ret"
               /\ status[t] = None /\ hostRef[t] = NoHost
               /\ (pc[t] = "ctor_metadata" /\ path[t] = MetadataFile) =>
                     /\ proc = "aborted"
                     /\ CopiesIn(Message("cannot_read", MetadataFile,
                                         "strerror(errno)", "", NoProblem), log) = 1

\* the process has aborted on a missing metadata file, with the message
C7_Witness ==
    /\ MetadataMissing /\ proc = "aborted"
    /\ \E m \in Emitted("cannot_read") : m.path = MetadataFile
    /\ \E t \in Threads : pc[t] = "ctor_metadata" /\ op[t] = "run"

\* no code object of the search path matches the pattern of the processor
ZeroMatch ==
    Glob(sys.fs, SearchPath(sys, Processor(sys.arch)), Processor(sys.arch)) = {}

NoMatchWarnings == { m \in Emitted("glob_warning") : m.what = "GLOB_NOMATCH" }

\* how many warnings the glob step has written
GlobWarningCount ==
    BagCardinality([m \in Emitted("glob_warning") |-> CopiesIn(m, log)])

\* C8 as stated, for the calls in which nothing is raised: with zero
\* matching code objects the initialization completes and every lookup that
\* follows finds nothing, the call returning not_implemented
C8_ZeroMatchNotImplemented ==
    ZeroMatch =>
        /\ proc = "aborted" => \E t \in Threads : pc[t] \in CtorSteps \ {"ctor_glob"}
        /\ \A t \in Threads :
             (op[t] = "run" /\ caught[t] = NoException) =>
                /\ solution[t] = Null
                /\ pc[t] = "ret" => status[t] = "not_implemented"

\* C8 amended: with zero matching code objects the constructor only warns
\* (one warning, naming the pattern) and goes on to the metadata file with no
\* module loaded, so an abort of the initialization is never the glob
\* step's; a call that follows returns not_implemented exactly when the
\* lookup in the loaded metadata finds no solution for the problem, and
\* otherwise goes on to launch the solution the metadata names, returning
\* success, or internal_error when something is raised
C8_ZeroMatchOnlyWarns ==
    ZeroMatch =>
        /\ host.adapter = {}
        /\ proc = "aborted" => \E t \in Threads : pc[t] \in CtorSteps \ {"ctor_glob"}
        /\ (hostGuard = "done" \/ \E t \in Threads : pc[t] \in {"ctor_metadata", "ctor_load"})
              => /\ GlobWarningCount = 1
                 /\ \A m \in Emitted("glob_warning") :
                      m.path = GlobPattern(SearchPath(sys, Processor(sys.arch)),
                                           Processor(sys.arch))
        /\ \A t \in Threads :
             Returning(t) =>
                /\ status[t] \in StatusCodes
                /\ status[t] = "not_implemented"
                      <=> (caught[t] = NoException /\ solution[t] = Null)
                /\ status[t] = "not_implemented"
                      => /\ host.library # Null
                         /\ findBestSolution(host.library, tprob[t],
                                             host.hardware) = Null
                /\ status[t] = "success"
                      => /\ solution[t] # Null
                         /\ solution[t] = findBestSolution(host.library, tprob[t],
                                                           host.hardware)
                         /\ launched[t].modules = {}

\* with zero matching code objects a call found a solution in the metadata
\* and returns from the launch branch
C8_Witness ==
    /\ ZeroMatch /\ hostGuard = "done"
    /\ NoMatchWarnings # {}
    /\ \E t \in Threads :
         Returning(t) /\ solution[t] # Null /\ status[t] \in {"success", "internal_error"}

-----------------------------------------------------------------------------
(* Properties of the one-shot diagnostics *)

\* the message of the `if(!solution)` branch for a problem
NoSolutionMessage(p) == Message("no_solution", NoPath, "", "No ", p)

\* how many messages of that branch the process has written for a type triple
NoSolutionCount(types) ==
    LET ms == { m \in Emitted("no_solution") : m.prob.types = types }
    IN  BagCardinality([m \in ms |-> CopiesIn(m, log)])

\* the call found no solution and is about to return
Missed(t) == Returning(t) /\ caught[t] = NoException /\ solution[t] = Null

\* C9 as stated: every call for a shape with no solution returns
\* not_implemented, and the diagnostic for that shape has been written
\* exactly once
C9_OncePerShape ==
    \A t \in Threads :
        Missed(t) =>
            /\ status[t] = "not_implemented"
            /\ CopiesIn(NoSolutionMessage(prob[t]), log) = 1

\* C9 amended: every call whose lookup finds no solution returns
\* not_implemented; the diagnostic is written at most once in the process
\* for each type triple, by the first such call of that triple and for that
\* call's problem, so by the time a miss returns exactly one diagnostic of
\* its triple has been written, and at most one for its own shape
C9_OncePerTypeTriple ==
    /\ \A ty \in TypeTriples :
         /\ NoSolutionCount(ty) <= 1
         /\ Latched("no_solution", ty) <=> NoSolutionCount(ty) = 1
    /\ \A t \in Threads :
         Missed(t) =>
            /\ status[t] = "not_implemented"
            /\ NoSolutionCount(prob[t].types) = 1
            /\ CopiesIn(NoSolutionMessage(prob[t]), log) <= 1

\* two calls for the same shape have missed and one diagnostic was written
C9_Witness ==
    \E t, u \in Threads :
        /\ t # u /\ Missed(t) /\ Missed(u)
        /\ prob[t] = prob[u]
        /\ CopiesIn(NoSolutionMessage(prob[t]), log) = 1


-----------------------------------------------------------------------------
(* Properties of the built problem's operators and flags *)

\* the operators of a tensor-op list
OpSet(ops) == { ops[i] : i \in 1..Len(ops) }

ComplexTypes == {"float_complex", "double_complex"}

\* C11: the op set of A, and independently of B, holds the complex-conjugate
\* operator exactly when that operand is conjugate-transposed and the input
\* element type is complex, and is empty otherwise; the op sets of C and D
\* are always empty
C11_ConjugateIffComplexConjugateTranspose ==
    bstage \in {"problem", "inputs"} =>
        LET conjA == bprob.trans_a = "conjugate_transpose" /\ bprob.types[1] \in ComplexTypes
            conjB == bprob.trans_b = "conjugate_transpose" /\ bprob.types[1] \in ComplexTypes
        IN  /\ OpSet(btprob.aops) = IF conjA THEN {"ComplexConjugate"} ELSE {}
            /\ OpSet(btprob.bops) = IF conjB THEN {"ComplexConjugate"} ELSE {}
            /\ Len(btprob.aops) <= 1 /\ Len(btprob.bops) <= 1
            /\ btprob.cops = <<>> /\ btprob.dops = <<>>

\* a complex double problem with A conjugate-transposed and B not transposed
\* was built: A carries the conjugate operator, B none
C11_Witness ==
    /\ bstage = "problem"
    /\ bprob.types[1] = "double_complex"
    /\ bprob.trans_a = "conjugate_transpose" /\ bprob.trans_b = "none"
    /\ btprob.aops = <<"ComplexConjugate">> /\ btprob.bops = <<>>

\* the type triples whose compute type is wider than their input type
WiderCompute ==
    { <<"half", "half", "float">>, <<"bfloat16", "bfloat16", "float">>,
      <<"int8", "int32", "int32">> }

\* C12: for every instantiated type triple the high-precision-accumulate
\* flag of the built problem is set exactly when the compute type is wider
\* than the input type: for (half, half, float), (bfloat16, bfloat16, float)
\* and (int8, int32, int32), and for no triple of equal widths
C12_HpaIffComputeWiderThanInput ==
    bstage \in {"problem", "inputs"} =>
        /\ btprob.highPrecisionAccumulate
              <=> SizeOf(bprob.types[3]) > SizeOf(bprob.types[1])
        /\ btprob.highPrecisionAccumulate <=> bprob.types \in WiderCompute
        /\ SizeOf(bprob.types[3]) = SizeOf(bprob.types[1])
              => ~btprob.highPrecisionAccumulate

\* an (int8, int32, int32) problem was built with the flag set, its compute
\* type as wide as its output type and wider than its input type
C12_Witness ==
    /\ bstage = "problem"
    /\ bprob.types = <<"int8", "int32", "int32">>
    /\ btprob.highPrecisionAccumulate


-----------------------------------------------------------------------------
(* Properties of the scalar conversion *)

\* the compute type is wider than the output storage type
ComputeWiderThanStorage(types) == SizeOf(types[3]) > SizeOf(types[2])

\* the marshalled alpha matters only when k # 0 (it is zeroed otherwise)
AlphaCopied == bprob.k # 0

\* C14 as stated: for every type triple whose compute type is wider than
\* the storage type the marshalled alpha and beta are in the kernel's
\* storage representation; for every other triple they are the caller's
\* bytes in the compute type
C14_NarrowedWheneverComputeWider ==
    bstage = "inputs" =>
        LET native == IF ComputeWiderThanStorage(bprob.types)
                      THEN rocblas_to_tensile_type(bprob.types[2])
                      ELSE rocblas_to_tensile_type(bprob.types[3])
        IN  /\ binputs.beta.type = native
            /\ AlphaCopied => binputs.alpha.type = native
            /\ ~ComputeWiderThanStorage(bprob.types) =>
                  /\ binputs.beta.v = bprob.beta.v
                  /\ AlphaCopied => binputs.alpha.v = bprob.alpha.v

\* C14 amended: the caller's float alpha and beta are narrowed to half and
\* then copied for (half, half, float) only; for every other instantiated
\* triple, (bfloat16, bfloat16, float) with its wider compute type included,
\* they are copied as they are, in the compute type
C14_NarrowedForHalfOnly ==
    bstage = "inputs" =>
        IF bprob.types = <<"half", "half", "float">>
        THEN /\ binputs.beta = [type |-> "Tensile::Half", v |-> FloatToHalf(bprob.beta.v)]
             /\ AlphaCopied =>
                   binputs.alpha = [type |-> "Tensile::Half",
                                    v |-> FloatToHalf(bprob.alpha.v)]
        ELSE /\ binputs.beta = [type |-> rocblas_to_tensile_type(bprob.types[3]),
                                v |-> bprob.beta.v]
             /\ AlphaCopied =>
                   binputs.alpha = [type |-> rocblas_to_tensile_type(bprob.types[3]),
                                    v |-> bprob.alpha.v]

\* a (bfloat16, bfloat16, float) request was marshalled with scalars that
\* are no bfloat16 values, and they are kept as floats
C14_Witness ==
    /\ bstage = "inputs"
    /\ bprob.types = <<"bfloat16", "bfloat16", "float">>
    /\ bprob.k # 0 /\ bprob.alpha.v = 2049 /\ bprob.beta.v = 2049
    /\ binputs.alpha = [type |-> "float", v |-> 2049]
    /\ binputs.beta = [type |-> "float", v |-> 2049]


-----------------------------------------------------------------------------
(* Properties of the reads of alpha and beta *)

\* C15 as stated: when alpha and beta are device-resident the host reads
\* through neither of them, at construction or at marshalling
C15_DevicePointersNotRead ==
    bmode = "device" => breads = {} /\ bstage # "fault"

\* C15 amended: where the pointers point makes no difference to what is
\* read: building the problem reads beta on the host, marshalling reads beta
\* again and alpha unless k == 0, and the inputs hold what was read, by
\* value; host-resident scalars are read as they are, and only a read of a
\* device-resident one can fault
C15_ScalarsAlwaysReadOnHost ==
    /\ bstage = "problem" => breads = {"beta"}
    /\ bstage = "inputs" =>
          /\ breads = IF bprob.k = 0 THEN {"beta"} ELSE {"alpha", "beta"}
          /\ binputs.alpha.type = AlphaBeta_tensile_type(bprob.types)
          /\ binputs.beta.type = AlphaBeta_tensile_type(bprob.types)
          /\ bmode = "host" =>
                /\ binputs.beta = AlphaBeta_copy(bprob.types, bprob.beta)
                /\ bprob.k # 0 => binputs.alpha = AlphaBeta_copy(bprob.types, bprob.alpha)
    /\ bstage = "fault" => bmode = "device" /\ "beta" \in breads
    /\ bstage = "request" => breads = {}

\* a request with device-resident scalars and k == 0 was built and
\* marshalled: beta was read on the host, alpha was not
C15_Witness ==
    /\ bmode = "device" /\ bstage = "inputs"
    /\ bprob.k = 0
    /\ breads = {"beta"}


-----------------------------------------------------------------------------
(* Properties of the path discovery *)

\* the constructor's `path` while a thread is at the glob step or about to
\* test the metadata file
SearchingIn(t) ==
    pc[t] = "ctor_glob" \/ (pc[t] = "ctor_metadata" /\ proc = "running")

\* the directories the default chain can arrive at
DefaultDirs ==
    LET base == IF sys.dladdr # NoPath THEN dirname(sys.dladdr) ELSE HardCodedLibDir
        libs == { base \o <<"..", "..", "Tensile", "library">>, base \o <<"library">> }
    IN  libs \cup { l \o <<Processor(sys.arch)>> : l \in libs }

\* C16: with ROCBLAS_TENSILE_LIBPATH set, the directory globbed and the
\* directory of the metadata file are its value, whatever the filesystem
\* holds: the pattern and the metadata path are built on it, and every
\* module loaded lies directly in it; without the variable the directory is
\* one the default chain arrives at
C16_EnvironmentOverridesDiscovery ==
    /\ sys.env # NoPath =>
          /\ \A t \in Threads :
               /\ SearchingIn(t) => path[t] = sys.env
               /\ pc[t] = "ctor_load" => path[t] = sys.env \o <<"TensileLibrary.yaml">>
          /\ \A m \in Emitted("glob_warning") :
               m.path = sys.env \o <<"*" \o Processor(sys.arch) \o "*co">>
          /\ \A m \in Emitted("cannot_read") :
               m.path = sys.env \o <<"TensileLibrary.yaml">>
          /\ \A f \in host.adapter : dirname(f) = sys.env
    /\ sys.env = NoPath =>
          /\ \A t \in Threads :
               /\ SearchingIn(t) => path[t] \in DefaultDirs
               /\ pc[t] = "ctor_load" => dirname(path[t]) \in DefaultDirs
          /\ \A f \in host.adapter : Resolve(sys.fs, <<>>, dirname(f)) # NoPath

\* the variable is set, its directory has an architecture subdirectory and
\* a library subdirectory of its own, and the constructor is about to load
\* the metadata file of the variable's directory, having loaded its modules
C16_Witness ==
    /\ sys.env = EnvDir
    /\ TestPath(sys.fs, EnvDir \o <<"gfx906">>)
    /\ TestPath(sys.fs, EnvDir \o <<"library">>)
    /\ host.adapter # {}
    /\ \E t \in Threads :
         pc[t] = "ctor_load" /\ path[t] = EnvDir \o <<"TensileLibrary.yaml">>


-----------------------------------------------------------------------------
(* Properties of the launch *)

\* C17: a launch goes through the submission with events exactly when the
\* handle has both a start event and a stop event, and carries those two
\* events and the handle's stream; every other launch, that of a handle
\* with one event only included, goes through the plain submission and
\* carries no event; a launch is one or the other
C17_EventPathIffBothEvents ==
    \A t \in Threads :
        launched[t] # NoLaunch =>
            LET h    == prob[t].handle
                both == h.startEvent # None /\ h.stopEvent # None
            IN  /\ launched[t].submission \in {"events", "plain"}
                /\ launched[t].submission = "events" <=> both
                /\ launched[t].submission = "events" =>
                      /\ launched[t].startEvent = h.startEvent
                      /\ launched[t].stopEvent = h.stopEvent
                      /\ launched[t].stream = h.stream
                /\ launched[t].submission = "plain" =>
                      /\ launched[t].startEvent = None
                      /\ launched[t].stopEvent = None

\* a request whose handle has a start event and no stop event was launched
\* through the plain submission
C17_Witness ==
    \E t \in Threads :
        /\ launched[t] # NoLaunch
        /\ prob[t].handle.startEvent # None /\ prob[t].handle.stopEvent = None
        /\ launched[t].submission = "plain"


\* what must hold in every state for C18: no more kernels are in flight than
\* calls were made, and a call that has its status can return at once,
\* whether or not the device has run its kernel
C18_ReturnsWithoutWaiting ==
    /\ inflight <= calls
    /\ \A t \in Threads :
         (Returning(t) /\ proc = "running") => ENABLED Return(t)

\* what must hold of every step for C18: a call submits a launch once, from
\* the launch branch and on its way to the return, each submission enqueues
\* one kernel, and from the lookup a call only goes forward: to the launch
\* or to the return, and from there out
C18_OneLaunchNoRetry ==
    /\ \A t \in Threads :
         /\ launched'[t] # launched[t] =>
               \/ /\ launched[t] = NoLaunch
                  /\ pc[t] = "launch" /\ pc'[t] = "ret"
                  /\ inflight' = inflight + 1
               \/ /\ launched'[t] = NoLaunch
                  /\ pc[t] = "ret" /\ pc'[t] = "idle"
         /\ pc[t] = "find" => pc'[t] \in {"find", "launch", "ret"}
         /\ pc[t] = "launch" => pc'[t] \in {"launch", "ret"}
         /\ pc[t] = "ret" => pc'[t] \in {"ret", "idle"}
         /\ solution'[t] # solution[t] => pc[t] = "find" \/ pc'[t] = "idle"
    /\ inflight' > inflight =>
          /\ inflight' = inflight + 1
          /\ \E t \in Threads : launched[t] = NoLaunch /\ launched'[t] # NoLaunch

\* C18: a call of runContractionProblem submits at most one launch and can
\* return as soon as it has submitted it, without the kernel being
\* complete; after a lookup that found nothing or an exception the call
\* goes to its return and neither looks up nor launches again
C18_OneLaunchThenReturn == []C18_ReturnsWithoutWaiting /\ [][C18_OneLaunchNoRetry]_vars

\* every call made so far has returned and a kernel is still in flight
C18_Witness ==
    /\ calls >= 1 /\ inflight >= 1
    /\ \A t \in Threads : pc[t] = "idle"


-----------------------------------------------------------------------------
(* Properties of the shared host *)

\* what must hold in every state for C19: the host a call was given by
\* getTensileHost is, field by field, the host as it is now, at every point
\* of the call and whatever status the call has arrived at
C19_HostAsGiven ==
    \A t \in Threads :
        (pc[t] \in {"construct", "find", "launch", "ret"}) =>
            /\ hostRef[t] # NoHost
            /\ hostRef[t].hardware = host.hardware
            /\ hostRef[t].library = host.library
            /\ hostRef[t].adapter = host.adapter

\* what must hold of every step for C19: once the initialization is
\* complete it stays complete, and no step changes the hardware
\* descriptor, the library or the set of loaded modules
C19_HostUntouched ==
    hostGuard = "done" =>
        /\ hostGuard' = "done"
        /\ host'.hardware = host.hardware
        /\ host'.library = host.library
        /\ host'.adapter = host.adapter

\* C19: after the initialization no call of runContractionProblem or
\* rocblas_initialize changes the hardware descriptor, the solution library
\* or the loaded modules, whether it ends in success, not_implemented or
\* internal_error
C19_HostReadOnlyAfterInit == []C19_HostAsGiven /\ [][C19_HostUntouched]_vars

\* one call is returning success and another internal_error, with modules
\* loaded, and both hold the host as it is
C19_Witness ==
    \E t, u \in Threads :
        /\ Returning(t) /\ status[t] = "success"
        /\ Returning(u) /\ status[u] = "internal_error"
        /\ host.adapter # {} /\ host.library # Null
        /\ hostRef[t] = host /\ hostRef[u] = host


-----------------------------------------------------------------------------
(* Properties of concurrent calls *)

\* what the library returns for a call's own request
OwnLookup(t) ==
    findBestSolution(host.library, ConstructTensileProblem(prob[t]), host.hardware)

\* C20: whatever the other threads do, what a call builds, looks up,
\* marshals and hands to the launcher is what its own request and the
\* library give, and so is the status it returns: not_implemented when
\* nothing was raised and the library has no solution for its request,
\* success when nothing was raised and it has one, internal_error when
\* something was raised in the call
C20_CallsAreIndependent ==
    \A t \in Threads :
        op[t] = "run" =>
            /\ tprob[t] # NoTensileProblem => tprob[t] = ConstructTensileProblem(prob[t])
            /\ solution[t] # Null => solution[t] = OwnLookup(t)
            /\ inputs[t] # NoInputs => inputs[t] = GetTensileInputs(prob[t])
            /\ launched[t] # NoLaunch =>
                  /\ launched[t].result.problem = ConstructTensileProblem(prob[t])
                  /\ launched[t].result.inputs = GetTensileInputs(prob[t])
                  /\ launched[t].result.kernel = OwnLookup(t).id
                  /\ launched[t].stream \in {None, prob[t].handle.stream}
            /\ Returning(t) =>
                  IF caught[t] # NoException
                  THEN status[t] = "internal_error"
                  ELSE /\ host.library # Null
                       /\ status[t] = IF OwnLookup(t) = Null
                                      THEN "not_implemented" ELSE "success"

\* two calls with different requests are returning together, one with
\* success and the other with not_implemented
C20_Witness ==
    \E t, u \in Threads :
        /\ Returning(t) /\ Returning(u)
        /\ prob[t] # prob[u]
        /\ status[t] = "success" /\ status[u] = "not_implemented"

-----------------------------------------------------------------------------
(* Properties of the Level-2 argument checks *)

\* the call under way has finished, by returning or by unwinding
HbmvFinished == l2stage \in {"returned", "unwound"}

C21_BadSize ==
    \/ l2args.n < 0 \/ l2args.k < 0 \/ l2args.lda <= l2args.k
    \/ l2args.incx = 0 \/ l2args.incy = 0 \/ l2args.batch_count < 0

C21_Empty == l2args.n = 0 \/ l2args.batch_count = 0

C21_NullPointer ==
    \E f \in {"A", "x", "y", "alpha", "beta"} : l2args[f] = Nullptr

\* the precedence of the checks for the handles in Live
C21_Precedence(Live) ==
    /\ l2args.handle \in Live /\ C21_BadSize => l2status = "invalid_size"
    /\ l2args.handle \in Live /\ ~C21_BadSize /\ C21_Empty =>
           l2status = "success" /\ ~l2invoked
    /\ l2args.handle \in Live /\ ~C21_BadSize /\ ~C21_Empty /\ C21_NullPointer =>
           l2status = "invalid_pointer"
    /\ l2invoked <=>
           /\ l2args.handle \in Live
           /\ ~C21_BadSize /\ ~C21_Empty /\ ~C21_NullPointer

\* C21 as stated: a null handle yields invalid_handle; otherwise a bad size
\* yields invalid_size even with null pointers; otherwise n == 0 or
\* batch_count == 0 yields success without the computation; otherwise a null
\* pointer yields invalid_pointer; the computation is invoked only when all
\* checks pass, and no exception escapes the entry point.
C21_FixedPrecedence ==
    HbmvFinished =>
        /\ l2stage = "returned"
        /\ l2args.handle = NullHandle => l2status = "invalid_handle"
        /\ C21_Precedence(Blas2Handles \ {NullHandle})

\* C21 amended: the same precedence, with one more early return after the
\* handle check: a handle that is answering a device-memory-size query
\* returns the query's status whatever the sizes and pointers are, without
\* the computation; the size, empty-problem and pointer checks apply to the
\* other non-null handles.
C21_PrecedenceUnlessQueried ==
    HbmvFinished =>
        /\ l2stage = "returned"
        /\ l2args.handle = NullHandle => l2status = "invalid_handle"
        /\ l2args.handle # NullHandle /\ l2args.handle.query =>
               /\ l2status \notin {"invalid_handle", "invalid_size", "invalid_pointer"}
               /\ ~l2invoked
               /\ l2logged = {}
        /\ C21_Precedence({ h \in Blas2Handles : ~h.null /\ ~h.query })

C21_Witness ==
    /\ l2stage = "returned"
    /\ ~l2args.handle.null /\ ~l2args.handle.query
    /\ l2args.n = 0 /\ l2args.k = 0 /\ l2args.lda = 1
    /\ l2args.incx = 1 /\ l2args.incy = -1 /\ l2args.batch_count = 1
    /\ l2args.A = Nullptr /\ l2args.alpha = Nullptr
    /\ l2status = "success" /\ ~l2invoked

C22_SizesBad(c) ==
    c.N < 0 \/ c.lda < c.N \/ c.lda < 1 \/ c.incx = 0 \/ c.incy = 0

C22_SomeNull(c) ==
    \E f \in {"A", "x", "y", "alpha", "beta"} : c[f] = Nullptr

-----------------------------------------------------------------------------
(* Properties of the stream of a launch *)

\* C23: on both submission paths the kernel launch is enqueued on the stream
\* of the request's handle, never on a different or default stream.
C23_EnqueuedOnHandleStream ==
    \A t \in Threads :
        pc[t] = "ret" /\ launched[t] # NoLaunch =>
            EnqueuedOn(launched[t]) = prob[t].handle.stream

-----------------------------------------------------------------------------
(* Properties of a request with k == 0 *)

\* a call for a k == 0 request is returning and no exception was raised in it
ZeroKReturning(t) ==
    Returning(t) /\ prob[t].k = 0 /\ caught[t] = NoException

\* the problem was built with a contraction of extent 1 and, when the lookup
\* found a solution, that solution was launched with alpha = 0 and success
\* is returned
ZeroKDispatched(t) ==
    /\ tprob[t] # NoTensileProblem
    /\ tprob[t].a.sizes[tprob[t].boundIndex[1].a + 1] = 1
    /\ tprob[t].b.sizes[tprob[t].boundIndex[1].b + 1] = 1
    /\ solution[t] # Null =>
          /\ status[t] = "success"
          /\ launched[t] # NoLaunch
          /\ launched[t].result.kernel = solution[t].id
          /\ launched[t].result.inputs = inputs[t]
          /\ inputs[t].alpha.v = 0

\* a k == 0 call submits its launch once, from the launch branch
ZeroKOneLaunch ==
    \A t \in Threads :
        (prob[t] # NoProblem /\ prob[t].k = 0 /\ launched'[t] # launched[t]) =>
            \/ /\ launched[t] = NoLaunch /\ pc[t] = "launch"
               /\ inflight' = inflight + 1
            \/ launched'[t] = NoLaunch /\ pc'[t] = "idle"

\* C24 as stated: a k == 0 request is not short-circuited; with a matching
\* solution it goes through selection, marshalling and one launch with
\* alpha = 0 and the caller's beta, and returns success.
C24_ZeroKCallersBeta ==
    \A t \in Threads :
        ZeroKReturning(t) =>
            /\ ZeroKDispatched(t)
            /\ solution[t] # Null => inputs[t].beta.v = prob[t].beta.v

C24_ZeroKInv ==
    \A t \in Threads :
        ZeroKReturning(t) =>
            /\ ZeroKDispatched(t)
            /\ solution[t] # Null =>
                  /\ inputs[t].beta.v = KernelNative(prob[t].types, prob[t].beta.v)
                  /\ prob[t].types # HalfFloat => inputs[t].beta.v = prob[t].beta.v

\* C24 amended: a k == 0 request is not short-circuited; with a matching
\* solution it goes through selection, marshalling and exactly one launch
\* with alpha = 0 and the caller's beta in the kernel's scalar type (rounded
\* to half precision for (half, half, float), the caller's value for every
\* other instantiation), and returns success.
C24_ZeroKIsDispatched == []C24_ZeroKInv /\ [][ZeroKOneLaunch]_vars

\* a (half, half, float) call with k == 0 returns success after a launch
\* whose beta is the caller's 2049 rounded to half precision
C24_Witness ==
    \E t \in Threads :
        /\ ZeroKReturning(t) /\ prob[t].types = HalfFloat
        /\ status[t] = "success" /\ launched[t] # NoLaunch
        /\ prob[t].alpha.v = 5 /\ inputs[t].alpha.v = 0
        /\ prob[t].beta.v = 2049 /\ inputs[t].beta.v = 2048

-----------------------------------------------------------------------------
(* Properties of the built problem's indices *)

\* the extent of a descriptor at a zero-based position
ExtentAt(desc, i) == desc.sizes[i + 1]

\* C25: every problem ConstructTensileProblem builds has exactly two free
\* indices (index 0 from A mapped to output dimension 0, index 1 from B
\* mapped to output dimension 1), one bound index and one batch index at
\* position 2 of all four rank-3 descriptors; in A and in B the free and the
\* bound positions are distinct members of {0, 1}; A and B have the same
\* extent at their bound positions; and their extents at their free
\* positions are those of C and D at dimensions 0 and 1, m and n.
C25_IndicesConsistent ==
    bstage \in {"problem", "inputs"} =>
        LET f == btprob.freeIndex
            bd == btprob.boundIndex
        IN  /\ Len(f) = 2 /\ Len(bd) = 1 /\ Len(btprob.batchIndex) = 1
            /\ f[1].isA /\ f[1].c = 0 /\ f[1].d = 0
            /\ ~f[2].isA /\ f[2].c = 1 /\ f[2].d = 1
            /\ btprob.batchIndex[1] = [a |-> 2, b |-> 2, c |-> 2, d |-> 2]
            /\ \A X \in {btprob.a, btprob.b, btprob.c, btprob.d} :
                   Len(X.sizes) = 3 /\ Len(X.strides) = 3
            /\ {f[1].i, bd[1].a} = {0, 1}
            /\ {f[2].i, bd[1].b} = {0, 1}
            /\ ExtentAt(btprob.a, bd[1].a) = ExtentAt(btprob.b, bd[1].b)
            /\ ExtentAt(btprob.a, f[1].i) = bprob.m
            /\ ExtentAt(btprob.b, f[2].i) = bprob.n
            /\ ExtentAt(btprob.c, 0) = bprob.m /\ ExtentAt(btprob.d, 0) = bprob.m
            /\ ExtentAt(btprob.c, 1) = bprob.n /\ ExtentAt(btprob.d, 1) = bprob.n

\* a problem was built for a transposed A and an untransposed B with
\* m, n and k all different and two batches
C25_Witness ==
    /\ bstage = "problem"
    /\ bprob.trans_a = "transpose" /\ bprob.trans_b = "none"
    /\ bprob.m = 2 /\ bprob.n = 1 /\ bprob.k = 0 /\ bprob.batch_count = 2
    /\ btprob.a.sizes = <<1, 2, 2>>
    /\ btprob.b.sizes = <<1, 1, 2>>

-----------------------------------------------------------------------------
(* Properties of a failed initialization *)

\* the constructor raised an exception: getTensileHost reported it
InitRaised == Emitted("init_failed") # {}

\* what must hold in every state for C26: after an exception in the
\* constructor the process is aborted, the host was handed to no caller, no
\* call has a status, a problem or a solution, and the guard never opened
C26_FailedInitServesNoCall ==
    InitRaised =>
        /\ proc = "aborted"
        /\ hostGuard = "initializing"
        /\ \A t \in Threads :
             /\ hostRef[t] = NoHost
             /\ ~InCallBody(t)
             /\ status[t] = None
             /\ tprob[t] = NoTensileProblem /\ solution[t] = Null
             /\ launched[t] = NoLaunch

\* what must hold of every step for C26: the step that reports the failure
\* aborts, an aborted process takes no step, and the guard opens only in a
\* process that reported no failure
C26_AbortIsFinal ==
    /\ (Emitted("init_failed")' # {} /\ ~InitRaised) => proc' = "aborted"
    /\ proc = "aborted" => vars' = vars
    /\ (hostGuard # "done" /\ hostGuard' = "done") =>
           ~InitRaised' /\ proc' = "running"

\* C26: if an exception is raised while the process-wide host is
\* constructed, the process aborts and no runContractionProblem call ever
\* proceeds to solution selection; the failed initialization is never
\* cached as a usable host and never becomes a per-call status code.
C26_FailedInitAborts == []C26_FailedInitServesNoCall /\ [][C26_AbortIsFinal]_vars

\* the metadata load raised an exception while a runContractionProblem call
\* of another thread was waiting for the host: the process is aborted
C26_Witness ==
    /\ InitRaised /\ proc = "aborted"
    /\ \E t \in Threads : pc[t] = "ctor_load"
    /\ \E t \in Threads : pc[t] = "getHost" /\ op[t] = "run" /\ status[t] = None

-----------------------------------------------------------------------------
(* Properties of the loaded library *)

\* C27: whenever the initialization has completed without aborting, the
\* cached solution library handle is non-null, so every later call can
\* perform its lookup; a readable metadata file that does not load as a
\* contraction-problem master library never leaves a completed
\* initialization with a null library handle.
C27_CompletedInitHasLibrary ==
    /\ hostGuard = "done" => host.library # Null
    /\ \A t \in Threads : hostRef[t] # NoHost => hostRef[t].library # Null
    /\ proc # "crashed"

-----------------------------------------------------------------------------
(* Properties of the latches *)

\* the kind of message each call site writes
SiteKind(site) ==
    CASE site = "no_solution"       -> "no_solution"
      [] site = "std_exception"     -> "std"
      [] site = "unknown_exception" -> "unknown"

\* how many messages of a site the process has written for a type triple
ClassCount(site, types) ==
    LET ms == { m \in Emitted(SiteKind(site)) : m.prob.types = types }
    IN  BagCardinality([m \in ms |-> CopiesIn(m, log)])

\* what must hold in every state for C28: each site has written at most one
\* message per type triple, exactly when its latch is set, and a call that
\* went through a site returns with exactly one message of that site and
\* triple written, its own or an earlier call's
C28_OneMessagePerLatch ==
    /\ \A site \in Sites, ty \in TypeTriples :
         /\ ClassCount(site, ty) <= 1
         /\ Latched(site, ty) <=> ClassCount(site, ty) = 1
    /\ \A t \in Threads :
         /\ Missed(t) => ClassCount("no_solution", prob[t].types) = 1
         /\ (Returning(t) /\ caught[t] # NoException) =>
               ClassCount(IF caught[t].kind = "std" THEN "std_exception"
                          ELSE "unknown_exception", prob[t].types) = 1

\* what must hold of every step for C28: a set latch stays set and its
\* message count stays; a step sets at most one latch, that of the site and
\* the type triple of a call in progress, and leaves every other latch and
\* count as it is
C28_LatchesIndependent ==
    /\ \A site \in Sites, ty \in TypeTriples :
         Latched(site, ty) =>
            /\ once'[<<site, ty>>]
            /\ ClassCount(site, ty)' = ClassCount(site, ty)
    /\ Cardinality({ key \in DOMAIN once : once'[key] # once[key] }) <= 1
    /\ \A key \in DOMAIN once :
         once'[key] # once[key] =>
            /\ \E t \in Threads :
                  /\ pc[t] \in {"construct", "find", "launch"} /\ pc'[t] = "ret"
                  /\ prob[t].types = key[2]
            /\ \A site \in Sites, ty \in TypeTriples :
                  <<site, ty>> # key => ClassCount(site, ty)' = ClassCount(site, ty)

\* C28: the one-shot latches are keyed by call site and type triple, not by
\* message content: once a site has written its diagnostic for one problem
\* of a type triple, no later call of that triple writes that site's
\* diagnostic again, whatever its shape or its exception's message; the
\* three sites and the type triples latch independently of each other.
C28_LatchedBySiteAndTriple ==
    []C28_OneMessagePerLatch /\ [][C28_LatchesIndependent]_vars

\* a call caught std::bad_alloc after a call for another shape of the same
\* type triple caught std::runtime_error: only the first was reported
C28_Witness ==
    \E t \in Threads :
        /\ Returning(t)
        /\ caught[t] = [kind |-> "std", what |-> "std::bad_alloc"]
        /\ Latched("std_exception", prob[t].types)
        /\ \A m \in Emitted("std") :
              /\ m.what = "std::runtime_error"
              /\ m.prob.types = prob[t].types /\ m.prob # prob[t]
        /\ Emitted("std") # {}

=============================================================================
